---- MODULE Spec2Model ----
(***************************************************************************)
(* ZenithSocket: incremental tree synchronisation between a Roblox        *)
(* producer (Lua clients) and the explorer server (Express + WebSocket).  *)
(*                                                                         *)
(* The module holds several specifications over one set of variables:      *)
(*   SpecStore     the HTTP handlers of server/routes.ts over the          *)
(*                 in-memory store and the database (storage.ts)           *)
(*   SpecTimeout   the same handlers, fewer nodes and a finer clock        *)
(*   SpecDetect    the update cycle and change detector of the four Lua    *)
(*                 clients over a live object graph                        *)
(*   SpecSync      the incremental client against the HTTP handlers, its   *)
(*                 requests delivered or lost                              *)
(*   SpecSiblings  the incremental client with siblings of one name        *)
(*   SpecWs        the WebSocket message handlers over the database        *)
(*   SpecConn      several producer sockets connecting to the WebSocket    *)
(*                 endpoint, their async listeners interleaved             *)
(*   SpecMalformed the HTTP handlers fed with incomplete delta bodies too  *)
(*   SpecBatches   the batch handler alone filling the store               *)
(*   SpecView      the explorer's TreeView building its tree from a list   *)
(*   SpecSearch    the TreeView with a search term typed into it           *)
(***************************************************************************)
EXTENDS Integers, Sequences, FiniteSets, TLC

VARIABLES
    \* ---- server/routes.ts, module state (lines 11-31)
    fastInstances,            \* any[]: the in-memory node list
    instancesMap,             \* Map<string, any>: path -> node
    fastConnection,           \* {isConnected, connectedAt, lastPing}
    lastDataUpdate,           \* number: Date.now() of the last data change
    cachedResponse,           \* pre-stringified JSON of fastInstances
    cachedConnectionResponse, \* pre-stringified JSON of fastConnection
    \* ---- server/storage.ts, the two database tables
    gameInstances,            \* table game_instances: a set of rows
    connectionStatus,         \* table connection_status: a set of rows (0 or 1)
    \* ---- the clock
    now,                      \* Date.now()
    \* ---- the operation handled last
    lastOp,
    \* ---- the producer: a Lua client and the live object graph it walks
    variant,                  \* which client script runs
    workspaceChildren,        \* game.Workspace:GetChildren()
    isSending,                \* the busy flag
    isFirstSync,
    previousInstances,        \* path -> node (incremental) or hash (others)
    current,                  \* the cycle's collected snapshot
    changes,                  \* the cycle's detected delta
    batchCursor,              \* the batch loop's index
    pc,                       \* where the cycle stands
    observed,                 \* the snapshot recorded by the previous cycle
    sent,                     \* the batch requests made since the last collection
    quiet,                    \* clean cycles since the last change or failure
    \* ---- server/routes.ts, the WebSocket endpoint
    wsOpen,                   \* currentConnection is an open producer socket
    wsRunning,                \* the message handlers that have not returned
    wsSerial,                 \* the table had every message run alone, in order
    \* ---- server/routes.ts, several producer sockets
    currentConnection,        \* 0 (null) or the socket last accepted
    readyState,               \* socket -> "idle", "open", "closing", "closed"
    listening,                \* the sockets whose listeners are registered
    tasks,                    \* the async handlers that have not returned
    applied,                  \* the sockets one of whose data messages returned
    \* ---- client: TreeView
    viewInstances,            \* the instances prop: the flat list fetched
    viewTree,                 \* the memoized treeData of that list
    searchTerm,               \* the search box's text
    filteredNodes             \* the memoized filtered tree that is drawn

serverVars == <<fastInstances, instancesMap, fastConnection, lastDataUpdate,
                cachedResponse, cachedConnectionResponse, gameInstances,
                connectionStatus, now, lastOp>>

producerVars == <<variant, workspaceChildren, isSending, isFirstSync,
                  previousInstances, current, changes, batchCursor, pc,
                  observed, sent, quiet>>

wsVars == <<wsOpen, wsRunning, wsSerial>>

connVars == <<currentConnection, readyState, listening, tasks, applied>>

viewVars == <<viewInstances, viewTree, searchTerm, filteredNodes>>

vars == <<serverVars, producerVars, wsVars, connVars, viewVars>>

----------------------------------------------------------------------------
(* Bounds of the model *)

MaxStore == 3     \* longest in-memory list explored
MaxBatchLen == 2  \* longest node list of a snapshot or batch request
MaxDeltaLen == 1  \* longest added, modified or removed list of a delta
MaxNow == 40000   \* the clock stops here
MaxChildren == 1  \* most children game.Workspace is given
MaxHandlers == 2  \* most message handlers in flight at once
MaxListed == 3    \* longest list the explorer is given

----------------------------------------------------------------------------
(* Program constants *)

TimeoutMs == 30000
NoTime == -1      \* a null Date
HashModulus == 2147483647
BATCH_SIZE == 2   \* 2000 to 5000 in the clients; what matters is that a
                  \* snapshot can be longer than one batch

----------------------------------------------------------------------------
(* Generic helpers *)

Range(s) == {s[i] : i \in DOMAIN s}

SeqsUpTo(S, n) == UNION {[1..k -> S] : k \in 0..n}

Paths(s) == {s[i].path : i \in DOMAIN s}

\* Map: the empty map, set and delete
EmptyMap == [k \in {} |-> k]
MapSet(m, k, v) == [x \in (DOMAIN m) \cup {k} |-> IF x = k THEN v ELSE m[x]]
MapDelete(m, k) == [x \in (DOMAIN m) \ {k} |-> m[x]]

\* Array.prototype.findIndex, 0 when absent (JavaScript's -1)
FindIndex(s, p) ==
    IF \E i \in DOMAIN s : s[i].path = p
    THEN CHOOSE i \in DOMAIN s : s[i].path = p /\ \A j \in 1..(i-1) : s[j].path # p
    ELSE 0

----------------------------------------------------------------------------
(* Node records (shared/schema.ts GameInstanceSchema).  A property value is *)
(* <<type, text>>; properties is the list of <<key, value>> in the table's  *)
(* traversal order.                                                         *)

Node(id, name, className, path, parent, properties) ==
    [id |-> id, name |-> name, className |-> className, path |-> path,
     parent |-> parent, properties |-> properties]

Bool(b) == <<"boolean", b>>
Str(s) == <<"string", s>>

\* What the store's handlers are fed: two paths; an id shared by two paths,
\* a path under two ids, and one (id, path) with two contents.
StoreNodes ==
    { Node("i1", "Workspace", "Workspace", "game.Workspace", "game", <<>>),
      Node("i1", "Part", "Part", "game.Workspace.Part", "Workspace",
           << <<"Anchored", Bool("false")>> >>),
      Node("i2", "Part", "Part", "game.Workspace.Part", "Workspace",
           << <<"Anchored", Bool("true")>> >>) }

\* The connection claims feed two nodes.
PingNodes ==
    { Node("i1", "Workspace", "Workspace", "game.Workspace", "game", <<>>),
      Node("i2", "Part", "Part", "game.Workspace.Part", "Workspace",
           << <<"Anchored", Bool("true")>> >>) }

----------------------------------------------------------------------------
(* server/storage.ts: the database statements, each atomic.  A statement    *)
(* yields [ok, table]; ok = FALSE is a thrown constraint violation.         *)

\* INSERT ... ON CONFLICT (id) DO UPDATE; path carries a UNIQUE constraint
addInstance(table, inst) ==
    LET sameId == {r \in table : r.id = inst.id}
        others == table \ sameId
    IN  IF \E r \in others : r.path = inst.path
        THEN [ok |-> FALSE, table |-> table]
        ELSE [ok |-> TRUE, table |-> others \cup {inst}]

\* the Map of addInstancesBatch: first-insertion order, last value per path
RECURSIVE UniqueByPath(_)
UniqueByPath(instances) ==
    IF instances = <<>> THEN <<>>
    ELSE LET n == Len(instances)
             init == UniqueByPath(SubSeq(instances, 1, n - 1))
             last == instances[n]
             i == FindIndex(init, last.path)
         IN  IF i = 0 THEN Append(init, last)
             ELSE [init EXCEPT ![i] = last]

\* addInstancesBatch: per-instance upsert, a failing one is counted and skipped
RECURSIVE UpsertAll(_, _)
UpsertAll(table, list) ==
    IF list = <<>> THEN table
    ELSE UpsertAll(addInstance(table, Head(list)).table, Tail(list))

addInstancesBatch(table, instances) == UpsertAll(table, UniqueByPath(instances))

\* DELETE FROM game_instances WHERE path = ...
removeInstance(table, path) == {r \in table : r.path # path}

RECURSIVE RemoveAll(_, _)
RemoveAll(table, paths) ==
    IF paths = <<>> THEN table
    ELSE RemoveAll(removeInstance(table, Head(paths)), Tail(paths))

\* UPDATE game_instances SET name, className, parent, properties WHERE path = ...
updateInstance(table, inst) ==
    {IF r.path = inst.path
     THEN [r EXCEPT !.name = inst.name, !.className = inst.className,
                    !.parent = inst.parent, !.properties = inst.properties]
     ELSE r : r \in table}

\* DELETE FROM game_instances
clearAllInstances == {}

\* INSERT ... ON CONFLICT (id) DO UPDATE on connection_status (one row id)
setConnectionStatus(status) == {status}

----------------------------------------------------------------------------
(* server/routes.ts: the read endpoints *)

\* GET /api/instances (unconditional): the cached body
listNodes == cachedResponse

\* GET /api/connection (unconditional): the cached body
getConnectionState == cachedConnectionResponse

\* the ETag header of GET /api/instances: the stamp between double quotes
ETag(stamp) == <<"\"", stamp, "\"">>

\* GET /api/instances with an If-None-Match header (<<>> when it has none),
\* served from the stamp and the cached body
getInstances(ifNoneMatch, stamp, body) ==
    IF ifNoneMatch = ETag(stamp)
    THEN [status |-> 304, etag |-> ETag(stamp), body |-> <<>>]
    ELSE [status |-> 200, etag |-> ETag(stamp), body |-> body]

Disconnected == [isConnected |-> FALSE, connectedAt |-> NoTime, lastPing |-> NoTime]

InitServer ==
    /\ fastInstances = <<>>
    /\ instancesMap = EmptyMap
    /\ fastConnection = Disconnected
    /\ lastDataUpdate = 0
    /\ cachedResponse = <<>>
    /\ cachedConnectionResponse = Disconnected
    /\ gameInstances = {}
    /\ connectionStatus = {}
    /\ now = 0
    /\ lastOp = [op |-> "none"]

\* the producer sockets that may connect, in any order
Sockets == {1, 2, 3}

\* no producer socket, no handler in flight, the explorer showing nothing
InitWs ==
    /\ wsOpen = FALSE
    /\ wsRunning = <<>>
    /\ wsSerial = {}
    /\ currentConnection = 0
    /\ readyState = [s \in Sockets |-> "idle"]
    /\ listening = {}
    /\ tasks = <<>>
    /\ applied = {}
    /\ viewInstances = <<>>
    /\ viewTree = [rootNodes |-> <<>>, nodeMap |-> EmptyMap]
    /\ searchTerm = ""
    /\ filteredNodes = [rootNodes |-> <<>>, nodeMap |-> EmptyMap]

----------------------------------------------------------------------------
(* server/routes.ts: the HTTP handlers.  A handler runs to completion; the  *)
(* database work it leaves to setImmediate is done before the next request. *)

RECURSIVE MapSetAll(_, _)
MapSetAll(m, list) ==
    IF list = <<>> THEN m
    ELSE MapSetAll(MapSet(m, Head(list).path, Head(list)), Tail(list))

Contact(conn, t) == [conn EXCEPT !.isConnected = TRUE, !.lastPing = t]

\* POST /api/clear-instances
PostClearInstances ==
    /\ fastInstances' = <<>>
    /\ instancesMap' = EmptyMap
    /\ cachedResponse' = <<>>
    /\ gameInstances' = clearAllInstances
    /\ lastOp' = [op |-> "clear"]
    /\ UNCHANGED <<fastConnection, lastDataUpdate, cachedConnectionResponse,
                   connectionStatus, now>>

\* POST /api/game-tree: the snapshot goes to the database only
PostGameTree(instances) ==
    /\ connectionStatus' = setConnectionStatus(
           [isConnected |-> TRUE, connectedAt |-> now, lastPing |-> now])
    /\ gameInstances' = addInstancesBatch(clearAllInstances, instances)
    /\ lastOp' = [op |-> "gameTree"]
    /\ UNCHANGED <<fastInstances, instancesMap, fastConnection, lastDataUpdate,
                   cachedResponse, cachedConnectionResponse, now>>

\* POST /api/game-tree-batch, lines 129-130: the instances whose path the
\* list does not hold yet
NewInstances(list, instances) ==
    SelectSeq(instances, LAMBDA inst : inst.path \notin Paths(list))

\* the same with the list begun anew by every batch, as a snapshot does
PostGameTreeBatchReplacing(instances, batchIndex, totalBatches, isLastBatch) ==
    LET conn == Contact(fastConnection, now)
    IN  /\ Len(instances) <= MaxStore
        /\ fastInstances' = instances
        /\ instancesMap' = MapSetAll(EmptyMap, instances)
        /\ cachedResponse' = instances
        /\ fastConnection' = conn
        /\ cachedConnectionResponse' = conn
        /\ lastDataUpdate' = now
        /\ gameInstances' = addInstancesBatch(gameInstances, instances)
        /\ lastOp' = [op |-> "batch"]
        /\ UNCHANGED <<connectionStatus, now>>

\* POST /api/game-tree-batch
PostGameTreeBatch(instances, batchIndex, totalBatches, isLastBatch) ==
    LET newInstances == NewInstances(fastInstances, instances)
        conn == Contact(fastConnection, now)
    IN  /\ Len(fastInstances) + Len(newInstances) <= MaxStore
        /\ fastInstances' = fastInstances \o newInstances
        /\ instancesMap' = MapSetAll(instancesMap, newInstances)
        /\ cachedResponse' = IF Len(newInstances) > 0
                             THEN fastInstances \o newInstances
                             ELSE cachedResponse
        /\ fastConnection' = conn
        /\ cachedConnectionResponse' = conn
        /\ lastDataUpdate' = now
        /\ gameInstances' = addInstancesBatch(gameInstances, instances)
        /\ lastOp' = [op |-> "batch"]
        /\ UNCHANGED <<connectionStatus, now>>

\* POST /api/incremental-update, lines 189-203: one modified instance
ApplyModified(st, m) ==
    IF m.path \in DOMAIN st.map
    THEN LET index == FindIndex(st.list, m.path)
         IN  [list |-> IF index # 0 THEN [st.list EXCEPT ![index] = m] ELSE st.list,
              map |-> MapSet(st.map, m.path, m)]
    ELSE [list |-> Append(st.list, m), map |-> MapSet(st.map, m.path, m)]

RECURSIVE ApplyModifiedAll(_, _)
ApplyModifiedAll(st, modified) ==
    IF modified = <<>> THEN st
    ELSE ApplyModifiedAll(ApplyModified(st, Head(modified)), Tail(modified))

\* POST /api/incremental-update, lines 181-215: added, then modified, then removed
ApplyDelta(list, map, added, modified, removed) ==
    LET a == [list |-> list \o added, map |-> MapSetAll(map, added)]
        m == ApplyModifiedAll(a, modified)
        gone == Range(removed)
        hit == Paths(m.list) \cap gone
    IN  [list |-> SelectSeq(m.list, LAMBDA inst : inst.path \notin gone),
         map |-> [p \in (DOMAIN m.map) \ hit |-> m.map[p]]]

\* POST /api/incremental-update
PostIncrementalUpdate(added, modified, removed) ==
    LET st == ApplyDelta(fastInstances, instancesMap, added, modified, removed)
    IN  /\ Len(fastInstances) + Len(added) <= MaxStore
        /\ Len(st.list) <= MaxStore
        /\ fastInstances' = st.list
        /\ instancesMap' = st.map
        /\ cachedResponse' = st.list
        /\ cachedConnectionResponse' = fastConnection
        /\ fastConnection' = Contact(fastConnection, now)
        /\ lastDataUpdate' = now
        /\ gameInstances' =
               RemoveAll(addInstancesBatch(addInstancesBatch(gameInstances, added),
                                           modified), removed)
        /\ lastOp' = [op |-> "delta"]
        /\ UNCHANGED <<connectionStatus, now>>

\* POST /api/incremental-update with a body that lacks a field: the handler
\* validates nothing, so reading .length of the first missing field throws
\* after the fields before it were applied; the catch answers 500.  body maps
\* the fields present to their lists.
PostIncompleteUpdate(body) ==
    LET has(f) == f \in DOMAIN body
        added == IF has("added") THEN body["added"] ELSE <<>>
        modified == IF has("added") /\ has("modified") THEN body["modified"] ELSE <<>>
        st == ApplyDelta(fastInstances, instancesMap, added, modified, <<>>)
    IN  /\ DOMAIN body # {"added", "modified", "removed"}
        /\ Len(st.list) <= MaxStore
        /\ fastInstances' = st.list
        /\ instancesMap' = st.map
        /\ lastOp' = [op |-> "incomplete"]
        /\ UNCHANGED <<fastConnection, lastDataUpdate, cachedResponse,
                       cachedConnectionResponse, gameInstances,
                       connectionStatus, now>>

\* POST /api/ping
PostPing ==
    /\ fastConnection' = Contact(fastConnection, now)
    /\ connectionStatus' = setConnectionStatus(Contact(fastConnection, now))
    /\ lastOp' = [op |-> "ping"]
    /\ UNCHANGED <<fastInstances, instancesMap, lastDataUpdate, cachedResponse,
                   cachedConnectionResponse, gameInstances, now>>

\* POST /api/disconnect: the database only
PostDisconnect ==
    /\ gameInstances' = clearAllInstances
    /\ connectionStatus' = setConnectionStatus(Disconnected)
    /\ lastOp' = [op |-> "disconnect"]
    /\ UNCHANGED <<fastInstances, instancesMap, fastConnection, lastDataUpdate,
                   cachedResponse, cachedConnectionResponse, now>>

\* the timeout checker's condition, lines 325-329
TimedOut(conn, t) ==
    /\ conn.lastPing # NoTime
    /\ t - conn.lastPing > TimeoutMs
    /\ conn.isConnected

\* the callback without line 340: the cached list body is left as it was
TimeoutCheckKeepsCache ==
    /\ IF TimedOut(fastConnection, now)
       THEN /\ fastInstances' = <<>>
            /\ instancesMap' = EmptyMap
            /\ fastConnection' = Disconnected
            /\ cachedConnectionResponse' = Disconnected
            /\ gameInstances' = clearAllInstances
            /\ connectionStatus' = setConnectionStatus(Disconnected)
            /\ lastOp' = [op |-> "timeoutCheck", fired |-> TRUE,
                          dropped |-> Len(fastInstances)]
            /\ UNCHANGED cachedResponse
       ELSE /\ lastOp' = [op |-> "timeoutCheck", fired |-> FALSE, dropped |-> 0]
            /\ UNCHANGED <<fastInstances, instancesMap, fastConnection,
                           cachedResponse, cachedConnectionResponse,
                           gameInstances, connectionStatus>>
    /\ UNCHANGED <<lastDataUpdate, now>>

\* the callback without lines 332-333: the nodes in memory are left
TimeoutCheckKeepsNodes ==
    /\ IF TimedOut(fastConnection, now)
       THEN /\ fastConnection' = Disconnected
            /\ cachedResponse' = <<>>
            /\ cachedConnectionResponse' = Disconnected
            /\ gameInstances' = clearAllInstances
            /\ connectionStatus' = setConnectionStatus(Disconnected)
            /\ lastOp' = [op |-> "timeoutCheck", fired |-> TRUE,
                          dropped |-> Len(fastInstances)]
            /\ UNCHANGED <<fastInstances, instancesMap>>
       ELSE /\ lastOp' = [op |-> "timeoutCheck", fired |-> FALSE, dropped |-> 0]
            /\ UNCHANGED <<fastInstances, instancesMap, fastConnection,
                           cachedResponse, cachedConnectionResponse,
                           gameInstances, connectionStatus>>
    /\ UNCHANGED <<lastDataUpdate, now>>

\* the setInterval callback, lines 324-350
TimeoutCheck ==
    /\ IF TimedOut(fastConnection, now)
       THEN /\ fastInstances' = <<>>
            /\ instancesMap' = EmptyMap
            /\ fastConnection' = Disconnected
            /\ cachedResponse' = <<>>
            /\ cachedConnectionResponse' = Disconnected
            /\ gameInstances' = clearAllInstances
            /\ connectionStatus' = setConnectionStatus(Disconnected)
            /\ lastOp' = [op |-> "timeoutCheck", fired |-> TRUE,
                          dropped |-> Len(fastInstances)]
       ELSE /\ lastOp' = [op |-> "timeoutCheck", fired |-> FALSE, dropped |-> 0]
            /\ UNCHANGED <<fastInstances, instancesMap, fastConnection,
                           cachedResponse, cachedConnectionResponse,
                           gameInstances, connectionStatus>>
    /\ UNCHANGED <<lastDataUpdate, now>>

\* time passes
Tick(d) ==
    /\ now + d <= MaxNow
    /\ now' = now + d
    /\ lastOp' = [op |-> "tick"]
    /\ UNCHANGED <<fastInstances, instancesMap, fastConnection, lastDataUpdate,
                   cachedResponse, cachedConnectionResponse, gameInstances,
                   connectionStatus>>

\* the envelopes a batch request is given: in order, and a stray last one
BatchEnvelopes == { <<0, 2, FALSE>>, <<1, 2, TRUE>>, <<0, 2, TRUE>> }

\* The handlers fed with nodes of U, the clock advancing by the steps of T
NextServer(U, T) ==
    /\ \/ PostClearInstances
       \/ \E instances \in SeqsUpTo(U, MaxBatchLen) : PostGameTree(instances)
       \/ \E instances \in SeqsUpTo(U, MaxBatchLen), e \in BatchEnvelopes :
              PostGameTreeBatch(instances, e[1], e[2], e[3])
       \/ \E added \in SeqsUpTo(U, MaxDeltaLen),
             modified \in SeqsUpTo(U, MaxDeltaLen),
             removed \in SeqsUpTo({n.path : n \in U}, MaxDeltaLen) :
              PostIncrementalUpdate(added, modified, removed)
       \/ PostPing
       \/ PostDisconnect
       \/ TimeoutCheck
       \/ \E d \in T : Tick(d)
    /\ UNCHANGED <<producerVars, wsVars, connVars, viewVars>>

----------------------------------------------------------------------------
(* The producer: the live object graph.  game holds the Workspace service; *)
(* a child of Workspace is a BasePart with a name, an Anchored flag and a   *)
(* Size.  Position stays where it is; Material, Transparency and the        *)
(* services' own properties never change here and are left out.            *)

Variants == {"incremental", "simple", "zstd", "ultra"}

Sizes == { <<4, 1, 2>>, <<8, 1, 2>> }
Position == <<0, 5, 0>>

Part(anchored, size) ==
    [Name |-> "Part", ClassName |-> "Part", Anchored |-> anchored, Size |-> size]

Parts == {Part(a, z) : a \in BOOLEAN, z \in Sizes}

\* tostring(Vector3)
tostringVector3 ==
    ( <<4, 1, 2>> :> "4, 1, 2" @@ <<8, 1, 2>> :> "8, 1, 2" @@
      <<0, 5, 0>> :> "0, 5, 0" )

\* string.format("%.1f,%.1f,%.1f", v.X, v.Y, v.Z)
formatVector3 ==
    ( <<4, 1, 2>> :> "4.0,1.0,2.0" @@ <<8, 1, 2>> :> "8.0,1.0,2.0" @@
      <<0, 5, 0>> :> "0.0,5.0,0.0" )

\* tostring(boolean)
tostringBoolean(b) == IF b THEN "true" ELSE "false"

\* the root's id
RootId(V) == IF V \in {"incremental", "simple"} THEN "game_root" ELSE "root"

\* createInstanceData / createUltraInstanceData on a BasePart
createInstanceData(V, id, instance, parentPath, parentName) ==
    Node(id, instance.Name, instance.ClassName,
         parentPath \o "." \o instance.Name, parentName,
         << <<"Name", Str(instance.Name)>>,
            <<"ClassName", Str(instance.ClassName)>>,
            <<"Anchored", Bool(tostringBoolean(instance.Anchored))>>,
            <<"Size", Str(IF V \in {"incremental", "simple"}
                          THEN tostringVector3[instance.Size]
                          ELSE formatVector3[instance.Size])>>,
            <<"Position", Str(IF V \in {"incremental", "simple"}
                              THEN tostringVector3[Position]
                              ELSE formatVector3[Position])>> >>)

\* collectCurrentGameData / collectGameData / collectUltraGameData: the root,
\* the service, then the service's children in GetChildren order
collectCurrentGameData(V, children, ids) ==
    << Node(RootId(V), "game", "DataModel", "game", "nil",
            << <<"Name", Str("game")>>, <<"ClassName", Str("DataModel")>> >>),
       Node(ids[1], "Workspace", "Workspace", "game.Workspace", "game",
            << <<"Name", Str("Workspace")>>,
               <<"ClassName", Str("Workspace")>> >>) >>
    \o [i \in 1..Len(children) |->
            createInstanceData(V, ids[i + 1], children[i],
                               "game.Workspace", "Workspace")]

----------------------------------------------------------------------------
(* The producer: hashing.  A hash string is kept as its list of pieces.    *)

\* string.byte of the strings that occur
Bytes ==
    (  "game" :> <<103, 97, 109, 101>> @@
       "Workspace" :> <<87, 111, 114, 107, 115, 112, 97, 99, 101>> @@
       "Part" :> <<80, 97, 114, 116>> @@
       "WedgePart" :> <<87, 101, 100, 103, 101, 80, 97, 114, 116>> @@
       "DataModel" :> <<68, 97, 116, 97, 77, 111, 100, 101, 108>> @@
       "nil" :> <<110, 105, 108>> @@
       "Name" :> <<78, 97, 109, 101>> @@
       "ClassName" :> <<67, 108, 97, 115, 115, 78, 97, 109, 101>> @@
       "Parent" :> <<80, 97, 114, 101, 110, 116>> @@
       "Anchored" :> <<65, 110, 99, 104, 111, 114, 101, 100>> @@
       "Size" :> <<83, 105, 122, 101>> @@
       "Position" :> <<80, 111, 115, 105, 116, 105, 111, 110>> @@
       "true" :> <<116, 114, 117, 101>> @@
       "false" :> <<102, 97, 108, 115, 101>> @@
       "4, 1, 2" :> <<52, 44, 32, 49, 44, 32, 50>> @@
       "8, 1, 2" :> <<56, 44, 32, 49, 44, 32, 50>> @@
       "0, 5, 0" :> <<48, 44, 32, 53, 44, 32, 48>> @@
       "4.0,1.0,2.0" :> <<52, 46, 48, 44, 49, 46, 48, 44, 50, 46, 48>> @@
       "8.0,1.0,2.0" :> <<56, 46, 48, 44, 49, 46, 48, 44, 50, 46, 48>> @@
       "0.0,5.0,0.0" :> <<48, 46, 48, 44, 53, 46, 48, 44, 48, 46, 48>> @@
       "|" :> <<124>> @@
       ":" :> <<58>> )

RECURSIVE ByteString(_)
ByteString(pieces) ==
    IF pieces = <<>> THEN <<>>
    ELSE Bytes[Head(pieces)] \o ByteString(Tail(pieces))

\* (hash * 31) % 2147483647, computed within 32 bits:
\* hash * 32 = rotate, since 2^31 = 1 (mod 2^31 - 1)
Times31(hash) ==
    LET times32 == (hash % 67108864) * 32 + (hash \div 67108864)
    IN  IF times32 >= hash THEN times32 - hash
        ELSE times32 + (HashModulus - hash)

\* ((hash * 31) + byte) % 2147483647
HashStep(hash, byte) ==
    LET t == Times31(hash)
    IN  IF t >= HashModulus - byte THEN t - (HashModulus - byte) ELSE t + byte

\* "for i = 1, #hashString do hash = ... end", n turns of it over one piece
RECURSIVE HashLoop(_, _, _)
HashLoop(hash, bytes, n) ==
    IF n = 0 THEN hash
    ELSE HashStep(HashLoop(hash, bytes, n - 1), bytes[n])

\* the loop over the first k pieces of the hash string
RECURSIVE HashPieces(_, _)
HashPieces(pieces, k) ==
    IF k = 0 THEN 0
    ELSE LET hash == HashPieces(pieces, k - 1)
         IN  IF hash >= HashModulus THEN hash  \* never: hash is a remainder
             ELSE HashLoop(hash, Bytes[pieces[k]], Len(Bytes[pieces[k]]))

PolyHash(pieces) == HashPieces(pieces, Len(pieces))

\* ".. '|' .. k .. ':' .. tostring(v)" over the properties that pass Keep
RECURSIVE PropertyPieces(_, _)
PropertyPieces(properties, skipped) ==
    IF properties = <<>> THEN <<>>
    ELSE LET kv == Head(properties)
         IN  (IF kv[1] \in skipped THEN <<>>
              ELSE <<"|", kv[1], ":", kv[2][2]>>)
             \o PropertyPieces(Tail(properties), skipped)

\* "if inst.properties.K then h = h .. '|' .. inst.properties.K end"
OptionalPiece(inst, K) ==
    IF \E i \in DOMAIN inst.properties : inst.properties[i][1] = K
    THEN LET i == CHOOSE i \in DOMAIN inst.properties :
                      inst.properties[i][1] = K
         IN  <<"|", inst.properties[i][2][2]>>
    ELSE <<>>

\* roblox-incremental-http-client.lua createHash: the hash string
hashString(instanceData) ==
    <<instanceData.name, "|", instanceData.className, "|", instanceData.parent>>
    \o PropertyPieces(instanceData.properties, {"Name", "ClassName", "Parent"})

\* roblox-incremental-http-client.lua createHash
createHash(instanceData) == PolyHash(hashString(instanceData))

\* the simple client's createHash: the string itself
createHashSimple(inst) ==
    ByteString(<<inst.name, "|", inst.className, "|", inst.parent>>
               \o PropertyPieces(inst.properties, {}))

\* roblox-zstd-client.lua createHash: the hash string
hashStringZstd(inst) ==
    <<inst.name, "|", inst.className, "|", inst.parent>>
    \o OptionalPiece(inst, "Size") \o OptionalPiece(inst, "Position")

\* roblox-zstd-client.lua createHash
createHashZstd(inst) == PolyHash(hashStringZstd(inst))

\* roblox-ultra-compressed-client.lua createUltraHash: the hash string
ultraHashString(inst) ==
    <<inst.name, "|", inst.className>>
    \o OptionalPiece(inst, "Size") \o OptionalPiece(inst, "Position")
    \o OptionalPiece(inst, "Health")

\* roblox-ultra-compressed-client.lua createUltraHash
createUltraHash(inst) == PolyHash(ultraHashString(inst))

\* the hash the client V takes of a node
HashOf(V, inst) ==
    CASE V = "incremental" -> createHash(inst)
      [] V = "simple" -> createHashSimple(inst)
      [] V = "zstd" -> createHashZstd(inst)
      [] V = "ultra" -> createUltraHash(inst)

\* the entry previousInstances keeps of a node: the node itself in the
\* incremental client, its hash in the others
Remembered(V, inst) == IF V = "incremental" THEN inst ELSE HashOf(V, inst)

\* the hash behind an entry of previousInstances
RememberedHash(V, entry) == IF V = "incremental" THEN createHash(entry) ELSE entry

----------------------------------------------------------------------------
(* The producer: change detection *)

\* "for _, inst in ipairs(current) do currentByPath[inst.path] = inst end"
RECURSIVE IndexByPath(_, _)
IndexByPath(m, list) ==
    IF list = <<>> THEN m
    ELSE IndexByPath(MapSet(m, Head(list).path, Head(list)), Tail(list))

\* pairs() visits the keys of a table in an order of its own
Orders(S) == {o \in [1..Cardinality(S) -> S] : Range(o) = S}

\* "currHashes[inst.path] = createHash(inst)" for every current instance
RECURSIVE HashByPath(_, _, _)
HashByPath(V, m, list) ==
    IF list = <<>> THEN m
    ELSE HashByPath(V, MapSet(m, Head(list).path, HashOf(V, Head(list))),
                    Tail(list))

\* the first loop of detectChanges with its equality test dropped: every
\* remembered path of the snapshot is reported modified
RECURSIVE ClassifyLoopAll(_, _, _, _, _, _)
ClassifyLoopAll(V, previous, currentByPath, currHashes, order, acc) ==
    IF order = <<>> THEN acc
    ELSE LET path == Head(order)
             inst == currentByPath[path]
             next ==
                 IF path \notin DOMAIN previous
                 THEN [acc EXCEPT !.added = Append(@, inst)]
                 ELSE [acc EXCEPT !.modified = Append(@, inst)]
         IN  ClassifyLoopAll(V, previous, currentByPath, currHashes, Tail(order),
                             next)

\* the first loop of detectChanges, over the paths in the visiting order
RECURSIVE ClassifyLoop(_, _, _, _, _, _)
ClassifyLoop(V, previous, currentByPath, currHashes, order, acc) ==
    IF order = <<>> THEN acc
    ELSE LET path == Head(order)
             inst == currentByPath[path]
             next ==
                 IF path \notin DOMAIN previous
                 THEN [acc EXCEPT !.added = Append(@, inst)]
                 ELSE IF currHashes[path] # RememberedHash(V, previous[path])
                      THEN [acc EXCEPT !.modified = Append(@, inst)]
                      ELSE acc
         IN  ClassifyLoop(V, previous, currentByPath, currHashes, Tail(order), next)

\* the second loop of detectChanges with its test dropped: every remembered
\* path is reported removed
RemovedLoopAll(currentByPath, order, removed) == removed \o order

\* the second loop of detectChanges, over the remembered paths
RECURSIVE RemovedLoop(_, _, _)
RemovedLoop(currentByPath, order, removed) ==
    IF order = <<>> THEN removed
    ELSE RemovedLoop(currentByPath, Tail(order),
                     IF Head(order) \notin DOMAIN currentByPath
                     THEN Append(removed, Head(order))
                     ELSE removed)

\* detectChanges / detectUltraChanges: the results the visiting orders allow
detectChanges(V, previous, currentInstances) ==
    LET currentByPath == IndexByPath(EmptyMap, currentInstances)
        currHashes == HashByPath(V, EmptyMap, currentInstances)
        first == { ClassifyLoop(V, previous, currentByPath, currHashes, o,
                                [added |-> <<>>, modified |-> <<>>]) :
                   o \in Orders(DOMAIN currentByPath) }
        second == { RemovedLoop(currentByPath, o, <<>>) :
                    o \in Orders(DOMAIN previous) }
    IN  { [added |-> c.added, modified |-> c.modified, removed |-> r] :
          c \in first, r \in second }

NoChanges == [added |-> <<>>, modified |-> <<>>, removed |-> <<>>]

----------------------------------------------------------------------------
(* The producer: the update cycle (sendIncrementalUpdates / sendUpdates /   *)
(* sendUltraUpdates).  A request either reaches its handler or is lost; the *)
(* cycle goes on either way.                                                *)

InitProducer(Vs) ==
    /\ variant \in Vs
    /\ workspaceChildren = <<>>
    /\ isSending = FALSE
    /\ isFirstSync = TRUE
    /\ previousInstances = EmptyMap
    /\ current = <<>>
    /\ changes = NoChanges
    /\ batchCursor = 0
    /\ pc = "idle"
    /\ observed = <<>>
    /\ sent = <<>>
    /\ quiet = 0

\* the server just started, no socket, and the incremental client loaded
InitIncremental == InitServer /\ InitProducer({"incremental"}) /\ InitWs

\* the same with any of the five clients loaded
InitVariants == InitServer /\ InitProducer(Variants \cup {"http"}) /\ InitWs

cycleVars == <<variant, isSending, isFirstSync, previousInstances, current,
               changes, batchCursor, pc, observed, sent>>

\* Instance.new(...).Parent = workspace
AddChild(part) ==
    /\ Len(workspaceChildren) < MaxChildren
    /\ workspaceChildren' = Append(workspaceChildren, part)
    /\ quiet' = 0
    /\ UNCHANGED <<serverVars, cycleVars>>

\* a property of a child is set
SetChild(i, part) ==
    /\ i \in DOMAIN workspaceChildren
    /\ workspaceChildren[i] # part
    /\ workspaceChildren' = [workspaceChildren EXCEPT ![i] = part]
    /\ quiet' = 0
    /\ UNCHANGED <<serverVars, cycleVars>>

\* child:Destroy()
DestroyChild(i) ==
    /\ i \in DOMAIN workspaceChildren
    /\ workspaceChildren' =
           SubSeq(workspaceChildren, 1, i - 1)
           \o SubSeq(workspaceChildren, i + 1, Len(workspaceChildren))
    /\ quiet' = 0
    /\ UNCHANGED <<serverVars, cycleVars>>

\* a cycle begun by every tick, in a thread of its own and the busy flag
\* not looked at
StartCycleSpawned(ids) ==
    /\ variant \in Variants
    /\ pc \in {"idle", "ping", "batch", "detect", "delta", "remember"}
    /\ isSending' = TRUE
    /\ current' = collectCurrentGameData(variant, workspaceChildren, ids)
    /\ pc' = IF isFirstSync THEN "ping" ELSE "detect"
    /\ sent' = <<>>
    /\ quiet' = IF quiet = 0 THEN 1 ELSE quiet
    /\ UNCHANGED <<serverVars, variant, workspaceChildren, isFirstSync,
                   previousInstances, changes, batchCursor, observed>>

\* the cycle begins: the busy flag, then the collection
StartCycle(ids) ==
    /\ variant \in Variants
    /\ pc = "idle"
    /\ ~isSending
    /\ isSending' = TRUE
    /\ current' = collectCurrentGameData(variant, workspaceChildren, ids)
    /\ pc' = IF isFirstSync THEN "ping" ELSE "detect"
    /\ sent' = <<>>
    /\ quiet' = IF quiet = 0 THEN 1 ELSE quiet
    /\ UNCHANGED <<serverVars, variant, workspaceChildren, isFirstSync,
                   previousInstances, changes, batchCursor, observed>>

\* math.ceil(#currentInstances / BATCH_SIZE)
TotalBatches == (Len(current) + BATCH_SIZE - 1) \div BATCH_SIZE

\* the same with each batch begun at the last node of the batch before it
batchInstancesFromLast ==
    LET startIdx == batchCursor * (BATCH_SIZE - 1) + 1
        endIdx == IF (batchCursor + 1) * BATCH_SIZE < Len(current)
                  THEN (batchCursor + 1) * BATCH_SIZE ELSE Len(current)
    IN  SubSeq(current, startIdx, endIdx)

\* the instances of the batch at batchCursor
batchInstances ==
    LET startIdx == batchCursor * BATCH_SIZE + 1
        endIdx == IF (batchCursor + 1) * BATCH_SIZE < Len(current)
                  THEN (batchCursor + 1) * BATCH_SIZE ELSE Len(current)
    IN  SubSeq(current, startIdx, endIdx)

\* the same with the last batch looked for one index too far
sendGameTreeBatchOneBased(instances, batchIndex, totalBatches) ==
    [instances |-> instances, batchIndex |-> batchIndex,
     totalBatches |-> totalBatches,
     isLastBatch |-> (batchIndex = totalBatches)]

\* sendGameTreeBatch / sendBatch: the body of the request
sendGameTreeBatch(instances, batchIndex, totalBatches) ==
    [instances |-> instances, batchIndex |-> batchIndex,
     totalBatches |-> totalBatches,
     isLastBatch |-> (batchIndex = totalBatches - 1)]

\* first sync: sendPing()
FirstSyncPing(delivered) ==
    /\ pc = "ping"
    /\ IF delivered THEN PostPing ELSE UNCHANGED serverVars
    /\ batchCursor' = 0
    /\ pc' = "batch"
    /\ quiet' = IF delivered THEN quiet ELSE 0
    /\ UNCHANGED <<variant, workspaceChildren, isSending, isFirstSync,
                   previousInstances, current, changes, observed, sent>>

\* the same with a failed send raised as an error: the protected body is
\* left and the cycle ends there
SendBatchOrAbort(delivered) ==
    /\ pc = "batch"
    /\ batchCursor < TotalBatches
    /\ LET batchData == sendGameTreeBatch(batchInstances, batchCursor,
                                          TotalBatches)
       IN  /\ IF delivered
              THEN PostGameTreeBatch(batchData.instances, batchData.batchIndex,
                                     batchData.totalBatches,
                                     batchData.isLastBatch)
              ELSE UNCHANGED serverVars
           /\ sent' = Append(sent, [request |-> batchData, ok |-> delivered])
    /\ IF delivered
       THEN /\ batchCursor' = batchCursor + 1
            /\ isSending' = isSending
            /\ IF batchCursor + 1 = TotalBatches
               THEN isFirstSync' = FALSE /\ pc' = "remember"
               ELSE UNCHANGED <<isFirstSync, pc>>
       ELSE /\ batchCursor' = 0
            /\ isSending' = FALSE
            /\ pc' = "idle"
            /\ UNCHANGED isFirstSync
    /\ quiet' = IF delivered THEN quiet ELSE 0
    /\ UNCHANGED <<variant, workspaceChildren, previousInstances, current,
                   changes, observed>>

\* the same with isFirstSync left as it is after the last batch
SendBatchAgain(delivered) ==
    /\ pc = "batch"
    /\ batchCursor < TotalBatches
    /\ LET batchData == sendGameTreeBatch(batchInstances, batchCursor,
                                          TotalBatches)
       IN  /\ IF delivered
              THEN PostGameTreeBatch(batchData.instances, batchData.batchIndex,
                                     batchData.totalBatches,
                                     batchData.isLastBatch)
              ELSE UNCHANGED serverVars
           /\ sent' = Append(sent, [request |-> batchData, ok |-> delivered])
    /\ batchCursor' = batchCursor + 1
    /\ pc' = IF batchCursor + 1 = TotalBatches THEN "remember" ELSE pc
    /\ quiet' = IF delivered THEN quiet ELSE 0
    /\ UNCHANGED <<variant, workspaceChildren, isSending, isFirstSync,
                   previousInstances, current, changes, observed>>

\* first sync: one turn of the batch loop; after the last, isFirstSync = false
SendBatch(delivered) ==
    /\ pc = "batch"
    /\ batchCursor < TotalBatches
    /\ LET batchData == sendGameTreeBatch(batchInstances, batchCursor,
                                          TotalBatches)
       IN  /\ IF delivered
              THEN PostGameTreeBatch(batchData.instances, batchData.batchIndex,
                                     batchData.totalBatches,
                                     batchData.isLastBatch)
              ELSE UNCHANGED serverVars
           /\ sent' = Append(sent, [request |-> batchData, ok |-> delivered])
    /\ batchCursor' = batchCursor + 1
    /\ IF batchCursor + 1 = TotalBatches
       THEN isFirstSync' = FALSE /\ pc' = "remember"
       ELSE UNCHANGED <<isFirstSync, pc>>
    /\ quiet' = IF delivered THEN quiet ELSE 0
    /\ UNCHANGED <<variant, workspaceChildren, isSending, previousInstances,
                   current, changes, observed>>

\* later cycles: detectChanges(currentInstances)
Detect ==
    /\ pc = "detect"
    /\ changes' \in detectChanges(variant, previousInstances, current)
    /\ pc' = IF Len(changes'.added) + Len(changes'.modified)
                  + Len(changes'.removed) > 0
             THEN "delta" ELSE "remember"
    /\ UNCHANGED <<serverVars, variant, workspaceChildren, isSending,
                   isFirstSync, previousInstances, current, batchCursor,
                   observed, sent, quiet>>

\* later cycles: sendIncrementalUpdate(added, modified, removed)
SendDelta(delivered) ==
    /\ pc = "delta"
    /\ IF delivered
       THEN PostIncrementalUpdate(changes.added, changes.modified, changes.removed)
       ELSE UNCHANGED serverVars
    /\ pc' = "remember"
    /\ quiet' = IF delivered THEN quiet ELSE 0
    /\ UNCHANGED <<variant, workspaceChildren, isSending, isFirstSync,
                   previousInstances, current, changes, batchCursor, observed,
                   sent>>

\* the same with the table left alone by a cycle that had a delta to send
RememberUnlessDelta ==
    /\ pc = "remember"
    /\ previousInstances' =
           IF changes = NoChanges
           THEN [p \in Paths(current) |->
                    Remembered(variant, IndexByPath(EmptyMap, current)[p])]
           ELSE previousInstances
    /\ observed' = current
    /\ current' = <<>>
    /\ changes' = NoChanges
    /\ batchCursor' = 0
    /\ isSending' = FALSE
    /\ pc' = "idle"
    /\ quiet' = IF quiet = 1 THEN 2 ELSE quiet
    /\ UNCHANGED <<serverVars, variant, workspaceChildren, isFirstSync, sent>>

\* "Update previous state", then isSending = false
Remember ==
    /\ pc = "remember"
    /\ previousInstances' =
           [p \in Paths(current) |->
               Remembered(variant, IndexByPath(EmptyMap, current)[p])]
    /\ observed' = current
    /\ current' = <<>>
    /\ changes' = NoChanges
    /\ batchCursor' = 0
    /\ isSending' = FALSE
    /\ pc' = "idle"
    /\ quiet' = IF quiet = 1 THEN 2 ELSE quiet
    /\ UNCHANGED <<serverVars, variant, workspaceChildren, isFirstSync, sent>>

\* an error raised inside the protected call and not caught there: the busy
\* flag stays up
RaiseUncaught ==
    /\ pc \in {"ping", "batch", "detect", "delta", "remember"}
    /\ current' = <<>>
    /\ changes' = NoChanges
    /\ batchCursor' = 0
    /\ pc' = "idle"
    /\ quiet' = 0
    /\ UNCHANGED <<serverVars, variant, workspaceChildren, isSending,
                   isFirstSync, previousInstances, observed, sent>>

\* an error raised inside the protected call (by the collection, the
\* detection or a send): pcall returns false, the warning is printed and
\* isSending = false; what the function had not yet assigned stays
Raise ==
    /\ pc \in {"ping", "batch", "detect", "delta", "remember"}
    /\ current' = <<>>
    /\ changes' = NoChanges
    /\ batchCursor' = 0
    /\ isSending' = FALSE
    /\ pc' = "idle"
    /\ quiet' = 0
    /\ UNCHANGED <<serverVars, variant, workspaceChildren, isFirstSync,
                   previousInstances, observed, sent>>

\* the producer over the parts Ps, a collection drawing its ids as one of
\* IdChoices, each request delivered or not as Outcomes allows
NextProducer(Ps, IdChoices, Outcomes) ==
    /\ \/ \E part \in Ps : AddChild(part)
       \/ \E i \in 1..MaxChildren, part \in Ps : SetChild(i, part)
       \/ \E i \in 1..MaxChildren : DestroyChild(i)
       \/ \E ids \in IdChoices : StartCycle(ids)
       \/ \E delivered \in Outcomes : FirstSyncPing(delivered)
       \/ \E delivered \in Outcomes : SendBatch(delivered)
       \/ Detect
       \/ \E delivered \in Outcomes : SendDelta(delivered)
       \/ Remember
    /\ UNCHANGED <<wsVars, connVars, viewVars>>

\* math.random in the ids of a collection: nothing the clients do reads an
\* id, and every collection is given the same draw of distinct ids
DrawnIds == {SubSeq(<<"i1", "i2", "i3">>, 1, MaxChildren + 1)}

----------------------------------------------------------------------------
(* roblox-http-client.lua: the client that scans the Workspace once and     *)
(* sends it, without a cycle or a detector.                                 *)

\* scanGameTree over convertInstance: the Workspace, then its children.
\* Material, Color and Transparency are left out as they are above.
scanGameTree(children, ids) ==
    << Node(ids[1], "Workspace", "Workspace", "Workspace", "nil",
            << <<"Parent", "game">> >>)
       @@ [children |-> [i \in 1..Len(children) |-> children[i].Name]] >>
    \o [i \in 1..Len(children) |->
            Node(ids[i + 1], children[i].Name, children[i].ClassName,
                 "Workspace." \o children[i].Name, "Workspace",
                 << <<"Position", Position>>, <<"Size", children[i].Size>>,
                    <<"Parent", "Workspace">> >>)
            @@ [children |-> <<>>]]

\* sendGameTreeBatches: the request bodies of "for i = 1, #instances,
\* BATCH_SIZE", in the order they are sent
sendGameTreeBatches(instances) ==
    LET totalBatches == (Len(instances) + BATCH_SIZE - 1) \div BATCH_SIZE
        turns == IF Len(instances) = 0 THEN 0
                 ELSE (Len(instances) - 1) \div BATCH_SIZE + 1
    IN  [t \in 1..turns |->
            LET i == (t - 1) * BATCH_SIZE + 1
                endIndex == IF i + BATCH_SIZE - 1 < Len(instances)
                            THEN i + BATCH_SIZE - 1 ELSE Len(instances)
            IN  [instances |-> SubSeq(instances, i, endIndex),
                 batchIndex |-> (i - 1) \div BATCH_SIZE,
                 totalBatches |-> totalBatches,
                 isLastBatch |-> (endIndex = Len(instances))]]

\* main(): the ping, the scan, then the batches when the list is over the
\* threshold (1000 for batches of 2500, kept in that ratio) and one
\* game-tree request otherwise; every request is lost
Main(ids) ==
    /\ variant = "http"
    /\ pc = "idle"
    /\ current' = scanGameTree(workspaceChildren, ids)
    /\ sent' = IF 5 * Len(current') > 2 * BATCH_SIZE
               THEN [t \in DOMAIN sendGameTreeBatches(current') |->
                        [request |-> sendGameTreeBatches(current')[t],
                         ok |-> FALSE]]
               ELSE <<>>
    /\ pc' = "done"
    /\ quiet' = 0
    /\ UNCHANGED <<serverVars, variant, workspaceChildren, isSending,
                   isFirstSync, previousInstances, changes, batchCursor,
                   observed, wsVars, connVars, viewVars>>

\* the detectors of the four clients.  No step of a cycle reads what the
\* server answers, so the server is left out of reach here and the states
\* are the producer's alone.
NextDetect ==
    \/ NextProducer(Parts, DrawnIds, {FALSE})
    \/ \E ids \in DrawnIds : Main(ids)
SpecDetect == InitVariants /\ [][NextDetect]_vars

\* the incremental client against the handlers, requests delivered or lost;
\* parts of one size
SyncParts == {Part(a, <<4, 1, 2>>) : a \in BOOLEAN}
NextSync == NextProducer(SyncParts, DrawnIds, BOOLEAN)
SpecSync == InitIncremental /\ [][NextSync]_vars

\* the incremental client or the client of part_000 loaded
InitRaise == InitServer /\ InitProducer({"incremental", "simple"}) /\ InitWs

\* the steps of a cycle that has begun, the detection apart: the function
\* runs on to its end
CycleRuns ==
    /\ \/ FirstSyncPing(FALSE)
       \/ SendBatch(FALSE)
       \/ SendDelta(FALSE)
       \/ Remember
       \/ Raise
    /\ UNCHANGED <<wsVars, connVars, viewVars>>

\* the clients with any step of a cycle raising an error; a cycle that has
\* begun goes on, and detectChanges, two loops over finite tables, returns
\* or raises
NextRaise ==
    \/ NextProducer(SyncParts, DrawnIds, {FALSE})
    \/ Raise /\ UNCHANGED <<wsVars, connVars, viewVars>>
SpecRaise ==
    InitRaise /\ [][NextRaise]_vars /\ WF_vars(CycleRuns) /\ []<>(pc # "detect")

\* Instance.new(...).Parent = workspace once more: the Workspace is given a
\* child beside those it has
AddSibling(part) ==
    /\ Len(workspaceChildren) = MaxChildren
    /\ workspaceChildren' = Append(workspaceChildren, part)
    /\ quiet' = 0
    /\ UNCHANGED <<serverVars, cycleVars, wsVars, connVars, viewVars>>

\* the ids drawn for a collection of the Workspace with a sibling
SiblingIds == {SubSeq(<<"i1", "i2", "i3", "i4">>, 1, MaxChildren + 2)}

\* the incremental client collecting a Workspace whose children are siblings
\* of one name, its requests lost
NextSiblings ==
    \/ NextProducer(SyncParts, SiblingIds, {FALSE})
    \/ \E part \in SyncParts : AddSibling(part)
SpecSiblings == InitIncremental /\ [][NextSiblings]_vars

----------------------------------------------------------------------------
(* server/routes.ts: the WebSocket endpoint.  ws emits a 'message' event   *)
(* per frame and does not wait for the async listener, so a handler runs   *)
(* up to its next await and the handlers in flight take turns.  A handler  *)
(* is kept as the database statements it has still to issue; the counters  *)
(* that only feed the log (expectedBatches, processedBatches) are left out. *)

\* a statement: clear, add (addInstance), remove, update; abort tells whether
\* a throw ends the handler (no try/catch around the statement)
Statement(kind, inst, abort) == [kind |-> kind, inst |-> inst, abort |-> abort]
PathOnly(path) == Node("", "", "", path, "", <<>>)

AddAll(instances, abort) ==
    [i \in 1..Len(instances) |-> Statement("add", instances[i], abort)]

\* case 'gameTree' (1000 instances or fewer)
gameTree(instances) ==
    <<Statement("clear", PathOnly(""), TRUE)>> \o AddAll(instances, TRUE)

\* case 'gameTreeStart'
gameTreeStart == <<Statement("clear", PathOnly(""), FALSE)>>

\* case 'gameTreeBatch'
gameTreeBatch(instances) == AddAll(instances, FALSE)

\* case 'incrementalUpdate'
incrementalUpdate(added, modified, removed) ==
    AddAll(UniqueByPath(added), FALSE) \o AddAll(UniqueByPath(modified), FALSE)
    \o [i \in 1..Len(removed) |-> Statement("remove", PathOnly(removed[i]), FALSE)]

\* case 'instanceAdded'
instanceAdded(inst) == <<Statement("add", inst, TRUE)>>

\* case 'instanceRemoved'
instanceRemoved(path) == <<Statement("remove", PathOnly(path), TRUE)>>

\* case 'instanceChanged'
instanceChanged(inst) == <<Statement("update", inst, TRUE)>>

\* one statement against the table
Execute(table, stmt) ==
    CASE stmt.kind = "clear" -> [ok |-> TRUE, table |-> clearAllInstances]
      [] stmt.kind = "add" -> addInstance(table, stmt.inst)
      [] stmt.kind = "remove" ->
             [ok |-> TRUE, table |-> removeInstance(table, stmt.inst.path)]
      [] stmt.kind = "update" ->
             [ok |-> TRUE, table |-> updateInstance(table, stmt.inst)]

\* a handler run from its first statement to its return, nothing in between
RECURSIVE RunAlone(_, _)
RunAlone(table, stmts) ==
    IF stmts = <<>> THEN table
    ELSE LET r == Execute(table, Head(stmts))
         IN  IF ~r.ok /\ Head(stmts).abort THEN r.table
             ELSE RunAlone(r.table, Tail(stmts))

Connected(t) == [isConnected |-> TRUE, connectedAt |-> t, lastPing |-> t]

\* wss.on('connection') of a producer
WsConnect ==
    /\ ~wsOpen
    /\ wsRunning = <<>>
    /\ wsOpen' = TRUE
    /\ gameInstances' = clearAllInstances
    /\ connectionStatus' = setConnectionStatus(Connected(now))
    /\ wsSerial' = clearAllInstances
    /\ lastOp' = [op |-> "wsConnect"]
    /\ UNCHANGED <<fastInstances, instancesMap, fastConnection, lastDataUpdate,
                   cachedResponse, cachedConnectionResponse, now, wsRunning>>

\* ws.on('close')
WsClose ==
    /\ wsOpen
    /\ wsRunning = <<>>
    /\ wsOpen' = FALSE
    /\ gameInstances' = clearAllInstances
    /\ connectionStatus' = setConnectionStatus(Disconnected)
    /\ wsSerial' = clearAllInstances
    /\ lastOp' = [op |-> "wsClose"]
    /\ UNCHANGED <<fastInstances, instancesMap, fastConnection, lastDataUpdate,
                   cachedResponse, cachedConnectionResponse, now, wsRunning>>

\* ws.on('message'): a frame arrives and its handler is entered
WsMessage(stmts) ==
    /\ wsOpen
    /\ Len(wsRunning) < MaxHandlers
    /\ stmts # <<>>
    /\ wsRunning' = Append(wsRunning, [stmts |-> stmts, begun |-> FALSE])
    /\ wsSerial' = RunAlone(wsSerial, stmts)
    /\ lastOp' = [op |-> "wsMessage"]
    /\ UNCHANGED <<fastInstances, instancesMap, fastConnection, lastDataUpdate,
                   cachedResponse, cachedConnectionResponse, gameInstances,
                   connectionStatus, now, wsOpen>>

\* the handler at i issues its next statement; it is entered only after the
\* handlers of the earlier frames have issued their first
WsStep(i) ==
    /\ i \in DOMAIN wsRunning
    /\ \A j \in 1..(i - 1) : wsRunning[j].begun
    /\ LET h == wsRunning[i]
           r == Execute(gameInstances, Head(h.stmts))
           rest == IF ~r.ok /\ Head(h.stmts).abort THEN <<>> ELSE Tail(h.stmts)
       IN  /\ gameInstances' = r.table
           /\ wsRunning' =
                  IF rest = <<>>
                  THEN SubSeq(wsRunning, 1, i - 1)
                       \o SubSeq(wsRunning, i + 1, Len(wsRunning))
                  ELSE [wsRunning EXCEPT ![i] = [stmts |-> rest, begun |-> TRUE]]
    /\ lastOp' = [op |-> "wsStep"]
    /\ UNCHANGED <<fastInstances, instancesMap, fastConnection, lastDataUpdate,
                   cachedResponse, cachedConnectionResponse, connectionStatus,
                   now, wsOpen, wsSerial>>

\* the frames a producer may send, over the nodes of U
NextWs(U) ==
    /\ \/ WsConnect
       \/ WsClose
       \/ \E instances \in SeqsUpTo(U, MaxBatchLen) : WsMessage(gameTree(instances))
       \/ WsMessage(gameTreeStart)
       \/ \E instances \in SeqsUpTo(U, MaxBatchLen) :
              WsMessage(gameTreeBatch(instances))
       \/ \E added \in SeqsUpTo(U, MaxDeltaLen),
             modified \in SeqsUpTo(U, MaxDeltaLen),
             removed \in SeqsUpTo({n.path : n \in U}, MaxDeltaLen) :
              WsMessage(incrementalUpdate(added, modified, removed))
       \/ \E inst \in U : WsMessage(instanceAdded(inst))
       \/ \E inst \in U : WsMessage(instanceRemoved(inst.path))
       \/ \E inst \in U : WsMessage(instanceChanged(inst))
       \/ \E i \in 1..MaxHandlers : WsStep(i)
    /\ UNCHANGED <<producerVars, connVars, viewVars>>

SpecWs == InitIncremental /\ [][NextWs(StoreNodes)]_vars

----------------------------------------------------------------------------
(* server/routes.ts: several producer sockets against one endpoint.  The    *)
(* 'connection' listener is async: it replaces currentConnection, then      *)
(* awaits the clear and the status write, and only then registers the       *)
(* socket's 'message' and 'close' listeners.  A socket's handlers are not   *)
(* cancelled when the socket is replaced or closed.  The heartbeat only     *)
(* pings and is left out; a frame of a socket that the server has asked to  *)
(* close is not delivered here.                                             *)

\* the ids a producer draws are its own (math.random, GetDebugId)
ProducerIds == << <<"a1", "a2">>, <<"b1", "b2">>, <<"c1", "c2">> >>

\* the walk of producer s: Workspace, then one Part
ProducerWalk(s) ==
    << Node(ProducerIds[s][1], "Workspace", "Workspace", "game.Workspace",
            "game", <<>>),
       Node(ProducerIds[s][2], "Part", "Part", "game.Workspace.Part",
            "Workspace", <<>>) >>

\* the node lists producer s sends: the walk or its first node
ProducerLists(s) == {SubSeq(ProducerWalk(s), 1, k) : k \in 1..2}

Task(sock, kind, stmts) ==
    [sock |-> sock, kind |-> kind, stmts |-> stmts, begun |-> FALSE]

\* wss.on('connection') up to its first await: the socket in place is asked
\* to close, the new one becomes currentConnection, the clear is issued
ConnConnect(s) ==
    /\ readyState[s] = "idle"
    /\ Len(tasks) < MaxHandlers
    /\ readyState' =
           [t \in Sockets |->
               IF t = s THEN "open"
               ELSE IF t = currentConnection /\ readyState[t] = "open"
                    THEN "closing"
                    ELSE readyState[t]]
    /\ currentConnection' = s
    /\ tasks' = Append(tasks,
                    Task(s, "connection",
                         <<Statement("clear", PathOnly(""), TRUE),
                           Statement("connected", PathOnly(""), TRUE)>>))
    /\ lastOp' = [op |-> "connConnect"]
    /\ UNCHANGED <<fastInstances, instancesMap, fastConnection, lastDataUpdate,
                   cachedResponse, cachedConnectionResponse, gameInstances,
                   connectionStatus, now, listening, applied>>

\* ws.on('message') of socket s: a frame arrives and its handler is entered
ConnMessage(s, stmts) ==
    /\ readyState[s] = "open"
    /\ s \in listening
    /\ Len(tasks) < MaxHandlers
    /\ stmts # <<>>
    /\ tasks' = Append(tasks, Task(s, "message", stmts))
    /\ lastOp' = [op |-> "connMessage"]
    /\ UNCHANGED <<fastInstances, instancesMap, fastConnection, lastDataUpdate,
                   cachedResponse, cachedConnectionResponse, gameInstances,
                   connectionStatus, now, currentConnection, readyState,
                   listening, applied>>

\* socket s is closed, by its peer or at the end of the closing handshake;
\* ws.on('close') runs if it was registered: currentConnection = null, then
\* the clear is issued
ConnClosed(s) ==
    /\ readyState[s] \in {"open", "closing"}
    /\ s \in listening => Len(tasks) < MaxHandlers
    /\ readyState' = [readyState EXCEPT ![s] = "closed"]
    /\ IF s \in listening
       THEN /\ currentConnection' = 0
            /\ tasks' = Append(tasks,
                            Task(s, "close",
                                 <<Statement("clear", PathOnly(""), TRUE),
                                   Statement("disconnected", PathOnly(""), TRUE)>>))
       ELSE UNCHANGED <<currentConnection, tasks>>
    /\ lastOp' = [op |-> "connClosed"]
    /\ UNCHANGED <<fastInstances, instancesMap, fastConnection, lastDataUpdate,
                   cachedResponse, cachedConnectionResponse, gameInstances,
                   connectionStatus, now, listening, applied>>

\* the task at i is resumed at its await: its statement takes effect and, if
\* it was the last, the code after it runs (the listeners are registered)
ConnStep(i) ==
    /\ i \in DOMAIN tasks
    /\ \A j \in 1..(i - 1) : tasks[j].begun
    /\ LET h == tasks[i]
           stmt == Head(h.stmts)
           isStatus == stmt.kind \in {"connected", "disconnected"}
           r == IF isStatus THEN [ok |-> TRUE, table |-> gameInstances]
                ELSE Execute(gameInstances, stmt)
           rest == IF ~r.ok /\ stmt.abort THEN <<>> ELSE Tail(h.stmts)
       IN  /\ gameInstances' = r.table
           /\ connectionStatus' =
                  CASE stmt.kind = "connected" -> setConnectionStatus(Connected(now))
                    [] stmt.kind = "disconnected" -> setConnectionStatus(Disconnected)
                    [] OTHER -> connectionStatus
           /\ tasks' =
                  IF rest = <<>>
                  THEN SubSeq(tasks, 1, i - 1) \o SubSeq(tasks, i + 1, Len(tasks))
                  ELSE [tasks EXCEPT ![i] = [h EXCEPT !.stmts = rest, !.begun = TRUE]]
           /\ listening' = IF rest = <<>> /\ h.kind = "connection"
                           THEN listening \cup {h.sock} ELSE listening
           /\ applied' = IF rest = <<>> /\ h.kind = "message"
                         THEN applied \cup {h.sock} ELSE applied
    /\ lastOp' = [op |-> "connStep"]
    /\ UNCHANGED <<fastInstances, instancesMap, fastConnection, lastDataUpdate,
                   cachedResponse, cachedConnectionResponse, now,
                   currentConnection, readyState>>

\* the sockets connect, send data frames over their own nodes, and close
NextConn ==
    /\ \/ \E s \in Sockets : ConnConnect(s)
       \/ \E s \in Sockets : ConnClosed(s)
       \/ \E s \in Sockets : \E instances \in ProducerLists(s) :
              ConnMessage(s, gameTree(instances))
       \/ \E s \in Sockets : \E instances \in ProducerLists(s) :
              ConnMessage(s, gameTreeBatch(instances))
       \/ \E s \in Sockets : \E inst \in Range(ProducerWalk(s)) :
              ConnMessage(s, instanceAdded(inst))
       \/ \E i \in 1..MaxHandlers : ConnStep(i)
    /\ UNCHANGED <<producerVars, wsVars, viewVars>>

SpecConn == InitIncremental /\ [][NextConn]_vars

----------------------------------------------------------------------------
(* client/src/components/status-bar.tsx: TreeView's treeData, the tree      *)
(* built from the flat list.  The result is kept as rootNodes, the paths of *)
(* the top-level nodes in order, and nodeMap, every node of the tree under  *)
(* its path with children the ordered paths of its child nodes.             *)

\* Array.prototype.join('.')
RECURSIVE Join(_)
Join(segments) ==
    IF Len(segments) = 1 THEN segments[1]
    ELSE Join(SubSeq(segments, 1, Len(segments) - 1)) \o "."
         \o segments[Len(segments)]

\* the paths the explorer is shown, as segments
ShownPaths ==
    { <<"game">>, <<"game", "Workspace">>, <<"game", "Lighting">>,
      <<"game", "Workspace", "Part">>, <<"game", "Workspace", "part">>,
      <<"game", "Workspace", "Beam">>, <<"game", "Workspace", "Lighting">>,
      <<"game", "Workspace", "Model", "Part">>,
      <<"game", "Workspace", "Model", "Beam">>,
      <<"a", "b", "c">> }

essentialServices ==
    <<"Workspace", "Players", "Lighting", "ReplicatedStorage", "ServerStorage",
      "StarterGui", "StarterPlayer", "StarterPack">>

\* String.prototype.split('.') over the shown paths, their prefixes and the
\* service paths
Split ==
    LET segs == UNION {{SubSeq(q, 1, k) : k \in 1..Len(q)} : q \in ShownPaths}
                \cup {<<"game", essentialServices[k]>> : k \in 1..8}
    IN  [path \in {Join(q) : q \in segs} |->
            CHOOSE q \in segs : Join(q) = path]

NoPath == ""    \* null (and as falsy as null)

\* pathSegments.slice(0, n).join('.')
Prefix(path, n) == Join(SubSeq(Split[path], 1, n))

\* the instances the list is drawn from: one per shown path, its parent
\* field the parent's name, and a Part whose parent field is the root's path
ShownInstances ==
    { Node("id_" \o Join(q), q[Len(q)], "Instance", Join(q),
           IF Len(q) > 1 THEN q[Len(q) - 1] ELSE NoPath, <<>>) : q \in ShownPaths }
    \cup { Node("id_moved", "Part", "Instance", "game.Workspace.Part",
                "game", <<>>) }

TreeNode(id, name, className, path, parent) ==
    [id |-> id, name |-> name, className |-> className, path |-> path,
     parent |-> parent, children |-> <<>>, hasChildren |-> FALSE]

\* Map.prototype.set: a new key goes last, a known key keeps its place
TreeSet(st, path, node) ==
    [st EXCEPT !.nodeMap = MapSet(st.nodeMap, path, node),
               !.keys = IF path \in DOMAIN st.nodeMap THEN st.keys
                        ELSE Append(st.keys, path)]

PushChild(st, parentPath, path) ==
    [st EXCEPT !.nodeMap[parentPath].children = Append(@, path),
               !.nodeMap[parentPath].hasChildren = TRUE]

\* node creation that trusts the instance's own parent field
RECURSIVE CreateNodesByField(_, _)
CreateNodesByField(st, list) ==
    IF list = <<>> THEN st
    ELSE LET instance == Head(list)
             set == TreeSet(st, instance.path,
                        TreeNode(instance.id, instance.name, instance.className,
                                 instance.path, instance.parent))
         IN  CreateNodesByField(
                 IF instance.parent # NoPath
                 THEN [set EXCEPT !.pathToParentMap =
                                      MapSet(@, instance.path, instance.parent)]
                 ELSE set,
                 Tail(list))

\* lines 118-135: one node per instance, its parent computed from its path
RECURSIVE CreateNodes(_, _)
CreateNodes(st, list) ==
    IF list = <<>> THEN st
    ELSE LET instance == Head(list)
             n == Len(Split[instance.path])
             parentPath == IF n > 1 THEN Prefix(instance.path, n - 1) ELSE NoPath
             set == TreeSet(st, instance.path,
                        TreeNode(instance.id, instance.name, instance.className,
                                 instance.path, parentPath))
         IN  CreateNodes(
                 IF parentPath # NoPath
                 THEN [set EXCEPT !.pathToParentMap =
                                      MapSet(@, instance.path, parentPath)]
                 ELSE set,
                 Tail(list))

\* lines 162-184: a service is made when the list holds nodes below it
RECURSIVE SynthesizeServices(_, _, _)
SynthesizeServices(st, list, k) ==
    IF k > Len(essentialServices) THEN st
    ELSE LET serviceName == essentialServices[k]
             servicePath == "game." \o serviceName
             hasChildrenForService ==
                 \E i \in DOMAIN list :
                     LET q == Split[list[i].path]
                     IN  Len(q) >= 2 /\ SubSeq(q, 1, 2) = <<"game", serviceName>>
         IN  SynthesizeServices(
                 IF hasChildrenForService /\ servicePath \notin DOMAIN st.nodeMap
                 THEN [TreeSet(st, servicePath,
                               TreeNode("service_" \o serviceName, serviceName,
                                        serviceName, servicePath, "game"))
                          EXCEPT !.pathToParentMap = MapSet(@, servicePath, "game")]
                 ELSE st,
                 list, k + 1)

\* lines 186-206, first pass: each node under its immediate parent, else orphan
RECURSIVE FirstPass(_, _)
FirstPass(st, k) ==
    IF k > Len(st.keys) THEN st
    ELSE LET path == st.keys[k]
             hasParent == path \in DOMAIN st.pathToParentMap
         IN  FirstPass(
                 IF hasParent /\ st.pathToParentMap[path] \in DOMAIN st.nodeMap
                 THEN PushChild(st, st.pathToParentMap[path], path)
                 ELSE IF ~hasParent /\ path = "game"
                 THEN [st EXCEPT !.rootNodes = Append(@, path)]
                 ELSE [st EXCEPT !.orphanNodes = Append(@, path)],
                 k + 1)

\* lines 219-255: the placeholders from segment j on, below currentParent,
\* a known service in its own class (lines 226-236); yields the state and the
\* last parent
RECURSIVE CreateIntermediates(_, _, _, _)
CreateIntermediates(st, orphan, j, currentParent) ==
    IF j >= Len(Split[orphan]) THEN [st |-> st, parent |-> currentParent]
    ELSE LET intermediatePath == Prefix(orphan, j)
             nodeName == Split[orphan][j]
             nodeClass == IF nodeName \in Range(essentialServices)
                          THEN nodeName ELSE "Folder"
         IN  IF intermediatePath \in DOMAIN st.nodeMap
             THEN CreateIntermediates(st, orphan, j + 1, intermediatePath)
             ELSE CreateIntermediates(
                      PushChild(
                          TreeSet(st, intermediatePath,
                                  TreeNode("placeholder_" \o intermediatePath,
                                           nodeName, nodeClass,
                                           intermediatePath, currentParent)),
                          currentParent, intermediatePath),
                      orphan, j + 1, intermediatePath)

\* a second pass that makes no intermediate node
RECURSIVE SecondPassFlat(_, _)
SecondPassFlat(st, k) ==
    IF k > Len(st.orphanNodes) THEN st
    ELSE LET orphan == st.orphanNodes[k]
             found == {i \in 1..(Len(Split[orphan]) - 1) :
                          Prefix(orphan, i) \in DOMAIN st.nodeMap}
         IN  SecondPassFlat(
                 IF found = {}
                 THEN [st EXCEPT !.rootNodes = Append(@, orphan)]
                 ELSE PushChild(st, Prefix(orphan,
                                           CHOOSE x \in found : \A y \in found : y <= x),
                                orphan),
                 k + 1)

\* lines 208-274, second pass: each orphan under its closest existing
\* ancestor, the missing nodes between them made; with no ancestor, a root
RECURSIVE SecondPass(_, _)
SecondPass(st, k) ==
    IF k > Len(st.orphanNodes) THEN st
    ELSE LET orphan == st.orphanNodes[k]
             found == {i \in 1..(Len(Split[orphan]) - 1) :
                          Prefix(orphan, i) \in DOMAIN st.nodeMap}
         IN  SecondPass(
                 IF found = {}
                 THEN [st EXCEPT !.rootNodes = Append(@, orphan)]
                 ELSE LET i == CHOOSE x \in found : \A y \in found : y <= x
                          made == CreateIntermediates(st, orphan, i + 1,
                                                      Prefix(orphan, i))
                      IN  PushChild(made.st, made.parent, orphan),
                 k + 1)

\* lines 279-292
getServicePriority(name) ==
    CASE name = "game" -> 0
      [] name = "Workspace" -> 1
      [] name = "Players" -> 2
      [] name = "Lighting" -> 3
      [] name = "ReplicatedStorage" -> 4
      [] name = "ServerStorage" -> 5
      [] name = "StarterGui" -> 6
      [] name = "StarterPlayer" -> 7
      [] name = "StarterPack" -> 8
      [] OTHER -> 999

\* a.localeCompare(b, undefined, {numeric: true, sensitivity: 'base'}) as
\* the rank of each name: letter case makes no difference
CollationRank ==
    [name \in {"a", "b", "Beam", "c", "game", "Lighting", "Model", "Part",
               "part", "Workspace"} |->
        CASE name = "a" -> 1
          [] name = "b" -> 2
          [] name = "Beam" -> 3
          [] name = "c" -> 4
          [] name = "game" -> 5
          [] name = "Lighting" -> 6
          [] name = "Model" -> 7
          [] name \in {"Part", "part"} -> 8
          [] name = "Workspace" -> 9]

\* lines 295-304: the comparator of sortTree, negative when a goes first
CompareNodes(a, b) ==
    IF getServicePriority(a.name) # getServicePriority(b.name)
    THEN getServicePriority(a.name) - getServicePriority(b.name)
    ELSE CollationRank[a.name] - CollationRank[b.name]

\* Array.prototype.sort (stable) of a list of paths
RECURSIVE SortPaths(_, _)
SortPaths(nodeMap, paths) ==
    IF paths = <<>> THEN <<>>
    ELSE LET n == Len(paths)
             sorted == SortPaths(nodeMap, SubSeq(paths, 1, n - 1))
             last == paths[n]
             \* last goes after every element that does not compare greater
             at == Cardinality({i \in DOMAIN sorted :
                       \A j \in 1..i :
                           CompareNodes(nodeMap[sorted[j]], nodeMap[last]) <= 0})
         IN  SubSeq(sorted, 1, at) \o <<last>> \o SubSeq(sorted, at + 1, n - 1)

\* lines 294-314: every sibling list sorted
sortTree(st) ==
    [rootNodes |-> SortPaths(st.nodeMap, st.rootNodes),
     nodeMap |-> [path \in DOMAIN st.nodeMap |->
                     [st.nodeMap[path] EXCEPT
                         !.children = SortPaths(st.nodeMap, @)]]]

\* lines 110-315: the useMemo body
treeData(list) ==
    IF Len(list) = 0 THEN [rootNodes |-> <<>>, nodeMap |-> EmptyMap]
    ELSE LET created == CreateNodes([nodeMap |-> EmptyMap, keys |-> <<>>,
                                     pathToParentMap |-> EmptyMap,
                                     rootNodes |-> <<>>, orphanNodes |-> <<>>],
                                    list)
             \* lines 141-160: the root 'game' is made when the list lacks it
             rooted ==
                 IF "game" \in DOMAIN created.nodeMap THEN created
                 ELSE [TreeSet(created, "game",
                               [TreeNode("game_root", "game", "DataModel", "game",
                                         NoPath) EXCEPT !.hasChildren = TRUE])
                          EXCEPT !.pathToParentMap = MapDelete(@, "game")]
             synthesized == SynthesizeServices(rooted, list, 1)
         IN  sortTree(SecondPass(FirstPass(synthesized, 1), 1))

\* String.prototype.toLowerCase over the letters of the names shown
toLowerCase(s) ==
    LET upper == "ABCDEFGHIJKLMNOPQRSTUVWXYZ"
        lower == "abcdefghijklmnopqrstuvwxyz"
        char(c) == IF \E k \in 1..26 : SubSeq(upper, k, k) = c
                   THEN LET k == CHOOSE k \in 1..26 : SubSeq(upper, k, k) = c
                        IN  SubSeq(lower, k, k)
                   ELSE c
        folded[n \in 0..Len(s)] ==
            IF n = 0 THEN "" ELSE folded[n - 1] \o char(SubSeq(s, n, n))
    IN  folded[Len(s)]

\* String.prototype.includes
includes(s, part) ==
    \E k \in 0..(Len(s) - Len(part)) : SubSeq(s, k + 1, k + Len(part)) = part

\* lines 317-373: the useMemo body of filteredNodes.  The matches are looked
\* for in the instances prop, their ancestors are the prefixes of their
\* paths, and the tree is pruned from its top-level nodes down.
filterTree(list, tree, term) ==
    IF term = "" THEN tree
    ELSE LET searchLower == toLowerCase(term)
             matching == {i \in DOMAIN list :
                             \/ includes(toLowerCase(list[i].name), searchLower)
                             \/ includes(toLowerCase(list[i].className),
                                         searchLower)}
             matchingPaths == {list[i].path : i \in matching}
             ancestorPaths ==
                 UNION {{Prefix(list[i].path, n) :
                            n \in 1..(Len(Split[list[i].path]) - 1)} :
                        i \in matching}
             allVisiblePaths == matchingPaths \cup ancestorPaths
             visible(path) == path \in allVisiblePaths
             RECURSIVE kept(_)
             kept(paths) ==
                 UNION {{paths[i]} \cup kept(tree.nodeMap[paths[i]].children) :
                        i \in {i \in DOMAIN paths : visible(paths[i])}}
         IN  [rootNodes |-> SelectSeq(tree.rootNodes, visible),
              nodeMap |-> [path \in kept(tree.rootNodes) |->
                              [tree.nodeMap[path] EXCEPT
                                  !.children = SelectSeq(@, visible)]]]

\* the explorer is given a new list and renders.  Every list is shown after
\* the empty one; showing one list after another reaches no further state.
Render(list) ==
    /\ viewInstances = <<>> \/ list = <<>>
    /\ viewInstances' = list
    /\ viewTree' = treeData(list)
    /\ filteredNodes' = filterTree(list, treeData(list), searchTerm)
    /\ lastOp' = [op |-> "render"]
    /\ UNCHANGED <<searchTerm, fastInstances, instancesMap, fastConnection, lastDataUpdate,
                   cachedResponse, cachedConnectionResponse, gameInstances,
                   connectionStatus, now, producerVars, wsVars, connVars>>

NextView == \E list \in SeqsUpTo(ShownInstances, MaxListed) : Render(list)

SpecView == InitIncremental /\ [][NextView]_vars

\* the search terms typed
SearchTerms == {"", "Part", "game", "Model", "inst"}

\* onChange of the search box: setSearchTerm, and the memo is recomputed
setSearchTerm(term) ==
    /\ term # searchTerm
    /\ searchTerm' = term
    /\ filteredNodes' = filterTree(viewInstances, viewTree, term)
    /\ lastOp' = [op |-> "search"]
    /\ UNCHANGED <<viewInstances, viewTree, fastInstances, instancesMap,
                   fastConnection, lastDataUpdate, cachedResponse,
                   cachedConnectionResponse, gameInstances, connectionStatus,
                   now, producerVars, wsVars, connVars>>

NextSearch ==
    \/ \E list \in SeqsUpTo(ShownInstances, MaxListed) : Render(list)
    \/ \E term \in SearchTerms : setSearchTerm(term)

SpecSearch == InitIncremental /\ [][NextSearch]_vars

CoarseSteps == {TimeoutMs + 1}

\* the bodies of a delta that lack one field or more
IncompleteBodies(U) ==
    UNION { [F -> SeqsUpTo(U, MaxDeltaLen)] :
                F \in (SUBSET {"added", "modified", "removed"})
                       \ {{"added", "modified", "removed"}} }

\* the handlers fed with well-formed requests and with incomplete deltas
NextMalformed ==
    \/ NextServer(PingNodes, CoarseSteps)
    \/ /\ \E body \in IncompleteBodies(PingNodes) : PostIncompleteUpdate(body)
       /\ UNCHANGED <<producerVars, wsVars, connVars, viewVars>>

SpecMalformed == InitIncremental /\ [][NextMalformed]_vars

\* the data claims: three nodes, the clock jumping past the timeout
NextStore == NextServer(StoreNodes, CoarseSteps)

\* the store filled by batch requests only, with any envelope, and emptied
NextBatches ==
    /\ \/ PostClearInstances
       \/ \E instances \in SeqsUpTo(StoreNodes, MaxBatchLen), e \in BatchEnvelopes :
              PostGameTreeBatch(instances, e[1], e[2], e[3])
       \/ PostPing
    /\ UNCHANGED <<producerVars, wsVars, connVars, viewVars>>
SpecBatches == InitIncremental /\ [][NextBatches]_vars
SpecStore == InitIncremental /\ [][NextStore]_vars

\* the connection claims: two nodes, the clock stepping to and past the timeout
FineSteps == {TimeoutMs, TimeoutMs + 1}
NextTimeout == NextServer(PingNodes, FineSteps)
SpecTimeout == InitIncremental /\ [][NextTimeout]_vars

\* the server empties its collection (POST /api/clear-instances or the
\* timeout checker) while the producer runs: the cycles counted as clean
\* start again from here
ServerCleared ==
    /\ \/ PostClearInstances
       \/ TimeoutCheck
    /\ quiet' = 0
    /\ UNCHANGED <<workspaceChildren, cycleVars, wsVars, connVars, viewVars>>

\* the incremental client, every request delivered, against a server that is
\* cleared by a request or by the timeout checker
NextCleared ==
    \/ NextProducer(SyncParts, DrawnIds, {TRUE})
    \/ ServerCleared
    \/ /\ \E d \in FineSteps : Tick(d)
       /\ UNCHANGED <<producerVars, wsVars, connVars, viewVars>>
SpecCleared == InitIncremental /\ [][NextCleared]_vars

\* the ping thread waits 30 s between two heartbeats; the timeout checker
\* runs every 5 s; a heartbeat is at most MaxDelay ms on its way
PING_INTERVAL == 30000
CheckInterval == 5000
MaxDelay == 1
HeartbeatSteps == {MaxDelay, CheckInterval - 1, CheckInterval,
                   PING_INTERVAL - CheckInterval}

\* the ping thread of a producer that has synced: task.wait(30), then
\* sendPing, which arrives now.  The heartbeat before it is taken to have
\* arrived as it was sent.
Heartbeat ==
    /\ ~isFirstSync
    /\ fastConnection.lastPing # NoTime
    /\ now >= fastConnection.lastPing + PING_INTERVAL
    /\ PostPing
    /\ UNCHANGED <<producerVars, wsVars, connVars, viewVars>>

\* the setInterval callback at its times
CheckerRuns ==
    /\ now % CheckInterval = 0
    /\ TimeoutCheck
    /\ UNCHANGED <<producerVars, wsVars, connVars, viewVars>>

\* time passes between two cycles, and no further than the latest arrival
\* of the heartbeat that is due; the short steps are those of a heartbeat on
\* its way
Wait(d) ==
    /\ pc = "idle"
    /\ fastConnection.lastPing # NoTime =>
           now + d <= fastConnection.lastPing + PING_INTERVAL + MaxDelay
    /\ d <= MaxDelay =>
           /\ fastConnection.lastPing # NoTime
           /\ now >= fastConnection.lastPing + PING_INTERVAL
    /\ Tick(d)
    /\ UNCHANGED <<producerVars, wsVars, connVars, viewVars>>

\* the incremental client on a tree that does not change, every request
\* delivered, its ping thread and the server's timeout checker
NextHeartbeat ==
    \/ /\ \/ \E ids \in DrawnIds : StartCycle(ids)
          \/ FirstSyncPing(TRUE)
          \/ SendBatch(TRUE)
          \/ Detect
          \/ Remember
       /\ UNCHANGED <<wsVars, connVars, viewVars>>
    \/ Heartbeat
    \/ CheckerRuns
    \/ \E d \in HeartbeatSteps : Wait(d)
SpecHeartbeat == InitIncremental /\ [][NextHeartbeat]_vars

----------------------------------------------------------------------------
(* Claims on the in-memory store *)

\* the nodes a list holds at path p
AtPath(list, p) == {list[i] : i \in {j \in DOMAIN list : list[j].path = p}}
CountAtPath(list, p) == Cardinality({j \in DOMAIN list : list[j].path = p})
DistinctPaths(list) ==
    \A i, j \in DOMAIN list : i # j => list[i].path # list[j].path
LastAtPath(list, p) ==
    list[CHOOSE i \in DOMAIN list :
             list[i].path = p /\ \A j \in (i+1)..Len(list) : list[j].path # p]

\* C1: after a full-snapshot ingestion of a snapshot S with pairwise distinct
\* paths has completed, listNodes returns exactly S (one node per path of S,
\* with S's content, and nothing else).
C1_SnapshotRoundTrip ==
    [][\A S \in SeqsUpTo(StoreNodes, MaxBatchLen) :
           (PostGameTree(S) /\ DistinctPaths(S))
               => /\ DistinctPaths(listNodes')
                  /\ Range(listNodes') = Range(S)]_vars

\* C2: a delta with pairwise disjoint added, modified and removed path sets
\* leaves no node at a removed path, exactly the given node at every added or
\* modified path, and every other path of the prior collection unchanged.
DisjointDelta(added, modified, removed) ==
    /\ Paths(added) \cap Paths(modified) = {}
    /\ Paths(added) \cap Range(removed) = {}
    /\ Paths(modified) \cap Range(removed) = {}
DeltaPost(C, added, modified, removed, R) ==
    /\ \A p \in Range(removed) : AtPath(R, p) = {}
    /\ \A n \in Range(added) \cup Range(modified) :
           AtPath(R, n.path) = {n} /\ CountAtPath(R, n.path) = 1
    /\ \A p \in Paths(C) \ (Range(removed) \cup Paths(added) \cup Paths(modified)) :
           AtPath(R, p) = AtPath(C, p) /\ CountAtPath(R, p) = CountAtPath(C, p)
C2_DeltaApplication ==
    [][\A added \in SeqsUpTo(StoreNodes, MaxDeltaLen),
          modified \in SeqsUpTo(StoreNodes, MaxDeltaLen),
          removed \in SeqsUpTo({n.path : n \in StoreNodes}, MaxDeltaLen) :
           (PostIncrementalUpdate(added, modified, removed)
              /\ DisjointDelta(added, modified, removed))
               => DeltaPost(listNodes, added, modified, removed, listNodes')]_vars

\* C6: listNodes holds at most one node per path.
C6_KeyedByPath == DistinctPaths(listNodes)

\* C7: after a batch, every path of the batch is held exactly once, with the
\* content of its last occurrence in the batch.
C7_BatchLastWriterWins ==
    [][\A instances \in SeqsUpTo(StoreNodes, MaxBatchLen), e \in BatchEnvelopes :
           PostGameTreeBatch(instances, e[1], e[2], e[3])
               => \A p \in Paths(instances) :
                      /\ CountAtPath(listNodes', p) = 1
                      /\ AtPath(listNodes', p) = {LastAtPath(instances, p)}]_vars

C10_ConnectionRefreshed ==
    lastOp.op \in {"batch", "delta", "ping"}
        => /\ getConnectionState.isConnected
           /\ getConnectionState.lastPing = now

----------------------------------------------------------------------------
(* Claims on the producer *)

\* the hash string the client V feeds its hash loop
HashInput(V, inst) ==
    CASE V = "incremental" -> ByteString(hashString(inst))
      [] V = "simple" -> createHashSimple(inst)
      [] V = "zstd" -> ByteString(hashStringZstd(inst))
      [] V = "ultra" -> ByteString(ultraHashString(inst))

\* a step of Detect: the only step that leaves "detect"
Detected == pc = "detect" /\ pc' # "detect"

\* C3: detectChanges puts a node in added exactly when its path is absent
\* from the previous table, in modified exactly when the path is in both and
\* the hashes differ, a path in removed exactly when it is in the previous
\* table and absent from the snapshot; equal hashes put the path in none.
C3_Classification ==
    [][Detected =>
          LET P == previousInstances
              S == current
              inBoth == Paths(S) \cap DOMAIN P
              differ == {p \in inBoth :
                            HashOf(variant, LastAtPath(S, p))
                                # RememberedHash(variant, P[p])}
          IN  /\ Range(changes'.added) =
                     {LastAtPath(S, p) : p \in Paths(S) \ DOMAIN P}
              /\ Range(changes'.modified) = {LastAtPath(S, p) : p \in differ}
              /\ Range(changes'.removed) = (DOMAIN P) \ Paths(S)
              /\ Len(changes'.added) = Cardinality(Paths(S) \ DOMAIN P)
              /\ Len(changes'.modified) = Cardinality(differ)
              /\ Len(changes'.removed) = Cardinality((DOMAIN P) \ Paths(S))
              /\ \A p \in inBoth \ differ :
                     /\ p \notin Paths(changes'.added)
                     /\ p \notin Paths(changes'.modified)
                     /\ p \notin Range(changes'.removed)]_vars

\* C3 witness: a detection has put one node in modified and left the two
\* other paths, whose hashes are equal, out of all three lists
C3_Witness ==
    /\ pc = "delta"
    /\ Len(current) = 3
    /\ Len(changes.modified) = 1
    /\ changes.added = <<>>
    /\ changes.removed = <<>>
    /\ DOMAIN previousInstances = Paths(current)

\* what a node says of itself apart from its id and the administrative
\* property entries
NonAdministrative(properties) ==
    SelectSeq(properties, LAMBDA kv : kv[1] \notin {"Name", "ClassName", "Parent"})
ContentDiffers(a, b) ==
    \/ a.name # b.name
    \/ a.className # b.className
    \/ a.parent # b.parent
    \/ NonAdministrative(a.properties) # NonAdministrative(b.properties)
HashCollision(V, a, b) ==
    HashInput(V, a) # HashInput(V, b) /\ HashOf(V, a) = HashOf(V, b)

\* C5: a path present in two consecutive snapshots whose name, type, parent
\* or non-administrative property differs, with no hash collision, is
\* classified as modified in the second cycle, in every client variant.
C5_ChangeCompleteness ==
    [][Detected =>
          \A p \in Paths(observed) \cap Paths(current) :
              LET old == LastAtPath(observed, p)
                  new == LastAtPath(current, p)
              IN  (ContentDiffers(old, new) /\ ~HashCollision(variant, old, new))
                      => new \in Range(changes'.modified)]_vars

\* a node apart from its id
Content(n) == [n EXCEPT !.id = ""]
SameCollection(list, snapshot) ==
    {Content(n) : n \in Range(list)} = {Content(n) : n \in Range(snapshot)}

\* C4: once the tree has stopped changing and a whole later cycle has had
\* all its sends succeed, listNodes equals the producer's current snapshot
\* (by path and content).
C4_Resynchronized ==
    quiet = 2 =>
        \A ids \in DrawnIds :
            SameCollection(listNodes,
                collectCurrentGameData(variant, workspaceChildren, ids))

----------------------------------------------------------------------------
(* Claims on the WebSocket endpoint *)

\* C8: the handlers of two frames of one connection do not interleave: when
\* all have returned, the table is what running each alone, in the order
\* received, leaves.
C8_Serialized == wsRunning = <<>> => gameInstances = wsSerial

----------------------------------------------------------------------------
(* Claims on malformed requests *)

\* C13: a message that fails validation leaves the collection and the list
\* listNodes returns as they were before it.
C13_MalformedDiscarded ==
    [][lastOp'.op = "incomplete" =>
           /\ fastInstances' = fastInstances
           /\ instancesMap' = instancesMap
           /\ listNodes' = listNodes]_vars

----------------------------------------------------------------------------
(* Claims on the producer connections *)

\* the producer a row's id was drawn by
Origin(row) == CHOOSE s \in Sockets : row.id \in Range(ProducerIds[s])

\* C11: once a data message of the producer that connected last has been
\* applied, the table holds no row ingested from an earlier producer.
C11_PreviousCleared ==
    \A s \in Sockets :
        (currentConnection = s /\ s \in applied) =>
            \A row \in gameInstances : Origin(row) = s

\* C12: at most one producer socket is open with its messages applied to the
\* store, and it is the current connection.
C12_OneProducer ==
    \A s \in Sockets :
        (readyState[s] = "open" /\ s \in listening) =>
            /\ currentConnection = s
            /\ \A t \in Sockets \ {s} :
                   ~(readyState[t] = "open" /\ t \in listening)

----------------------------------------------------------------------------
(* Claims on the explorer's tree *)

TreeChildren(tree, path) == Range(tree.nodeMap[path].children)

\* how often a path is listed as a top-level node or as a child
Occurrences(tree, path) ==
    Cardinality({i \in DOMAIN tree.rootNodes : tree.rootNodes[i] = path})
    + Cardinality({<<q, i>> \in UNION {{q} \X DOMAIN tree.nodeMap[q].children :
                                           q \in DOMAIN tree.nodeMap} :
                      tree.nodeMap[q].children[i] = path})

\* a path and everything below it
RECURSIVE Below(_, _)
Below(tree, path) ==
    {path} \cup UNION {Below(tree, c) : c \in TreeChildren(tree, path)}

\* a node the list does not hold: the root, a service or a placeholder made
Synthesized(list, node) == \A i \in DOMAIN list : list[i].id # node.id

\* C14: for a list holding a node at "a.b.c" and none at "a" or "a.b", the
\* tree holds placeholders at "a" and "a.b": "a" a child of the root node,
\* "a.b" a child of "a" and the node a child of "a.b".
C14_OrphanChain ==
    ("a.b.c" \in Paths(viewInstances)
        /\ {"a", "a.b"} \cap Paths(viewInstances) = {}) =>
        /\ {"game", "a", "a.b"} \subseteq DOMAIN viewTree.nodeMap
        /\ "a" \in TreeChildren(viewTree, "game")
        /\ "a.b" \in TreeChildren(viewTree, "a")
        /\ "a.b.c" \in TreeChildren(viewTree, "a.b")

\* C15: every node of the list, one per distinct path, is in the tree exactly
\* once, at the root node or below it.
C15_NothingDropped ==
    \A p \in Paths(viewInstances) :
        /\ p \in DOMAIN viewTree.nodeMap
        /\ Occurrences(viewTree, p) = 1
        /\ "game" \in DOMAIN viewTree.nodeMap
        /\ p \in Below(viewTree, "game")

\* C16: a listed node whose parent path is not listed while some proper
\* ancestor path is: every path between the deepest listed ancestor and the
\* node holds one synthesized node, each the child of the one above, and the
\* node is the child of the deepest; a path shared by several orphans holds
\* one node, listed once.
C16_Placeholders ==
    \A p \in Paths(viewInstances) :
        LET n == Len(Split[p])
            anc == {i \in 1..(n - 1) : Prefix(p, i) \in Paths(viewInstances)}
        IN  (anc # {} /\ (n - 1) \notin anc) =>
                LET d == CHOOSE x \in anc : \A y \in anc : y <= x
                IN  /\ \A i \in d..(n - 1) :
                           /\ Prefix(p, i) \in DOMAIN viewTree.nodeMap
                           /\ Prefix(p, i + 1) \in TreeChildren(viewTree, Prefix(p, i))
                    /\ \A i \in (d + 1)..(n - 1) :
                           LET made == viewTree.nodeMap[Prefix(p, i)]
                           IN  /\ Synthesized(viewInstances, made)
                               /\ made.path = Prefix(p, i)
                               /\ made.name = Split[p][i]
                               /\ Occurrences(viewTree, Prefix(p, i)) = 1
                    /\ Occurrences(viewTree, p) = 1

\* two orphans below the listed Workspace share the missing Model
C16_Witness ==
    /\ Paths(viewInstances) = {"game.Workspace", "game.Workspace.Model.Part",
                               "game.Workspace.Model.Beam"}
    /\ "game.Workspace.Model" \in TreeChildren(viewTree, "game.Workspace")
    /\ viewTree.nodeMap["game.Workspace.Model"].id = "placeholder_game.Workspace.Model"
    /\ TreeChildren(viewTree, "game.Workspace.Model") =
           {"game.Workspace.Model.Part", "game.Workspace.Model.Beam"}

\* C17: a listed node whose path without its last segment is the path of a
\* listed node is a child of that node, whatever its parent field holds.
C17_ComputedParent ==
    \A p \in Paths(viewInstances) :
        LET n == Len(Split[p])
        IN  (n >= 2 /\ Prefix(p, n - 1) \in Paths(viewInstances)) =>
                /\ p \in TreeChildren(viewTree, Prefix(p, n - 1))
                /\ Occurrences(viewTree, p) = 1

\* the Part whose parent field says 'game' is shown under the listed Workspace
C17_Witness ==
    /\ "game.Workspace" \in Paths(viewInstances)
    /\ \E i \in DOMAIN viewInstances : viewInstances[i].id = "id_moved"
    /\ viewTree.nodeMap["game.Workspace.Part"].id = "id_moved"
    /\ "game.Workspace.Part" \in TreeChildren(viewTree, "game.Workspace")

\* C18: whatever list is rendered, the empty one too, the tree has the node
\* at path 'game' as a top-level node, of class DataModel when it was made.
C18_RootExists ==
    lastOp.op = "render" =>
        /\ "game" \in Range(viewTree.rootNodes)
        /\ "game" \in DOMAIN viewTree.nodeMap
        /\ "game" \notin Paths(viewInstances) =>
               viewTree.nodeMap["game"].className = "DataModel"

\* the key the claim orders the children of a node by: the priority of the
\* well-known names counts below the root node only
SiblingKey(parentPath, node) ==
    <<IF parentPath = "game" THEN getServicePriority(node.name) ELSE 0,
      CollationRank[node.name]>>

\* C19: the root's children are in priority order, then alphabetical; the
\* children of every other node are in alphabetical order only.
C19_SiblingOrder ==
    \A q \in DOMAIN viewTree.nodeMap :
        LET children == viewTree.nodeMap[q].children
        IN  \A i, j \in DOMAIN children :
                i < j =>
                    LET a == SiblingKey(q, viewTree.nodeMap[children[i]])
                        b == SiblingKey(q, viewTree.nodeMap[children[j]])
                    IN  a[1] < b[1] \/ (a[1] = b[1] /\ a[2] <= b[2])

\* C20: two lists of the same nodes, one per path, in different orders give
\* the same tree.
C20_OrderIndependent ==
    DistinctPaths(viewInstances) =>
        \A other \in Orders(Range(viewInstances)) : treeData(other) = viewTree

\* C22: in the tree of every rendered list a node's hasChildren flag is true
\* exactly when the node has a child; a node whose only child is no longer
\* listed stays with the flag false.
C22_HasChildrenAccurate ==
    \A q \in DOMAIN viewTree.nodeMap :
        viewTree.nodeMap[q].hasChildren <=> viewTree.nodeMap[q].children # <<>>


\* the nodes drawn of a tree: those reached from its top-level nodes
Drawn(tree) == UNION {Below(tree, tree.rootNodes[i]) : i \in DOMAIN tree.rootNodes}

\* a node of the tree whose name or class contains the search term
Matches(node) ==
    \/ includes(toLowerCase(node.name), toLowerCase(searchTerm))
    \/ includes(toLowerCase(node.className), toLowerCase(searchTerm))

\* C21: for a non-empty search term the nodes of the filtered tree are the
\* nodes of the tree whose name or class contains the term, whatever its
\* case, and the ancestors of those nodes in the tree.
C21_SearchVisibility ==
    searchTerm # "" =>
        Drawn(filteredNodes) =
            {q \in Drawn(viewTree) :
                \E m \in Below(viewTree, q) : Matches(viewTree.nodeMap[m])}

----------------------------------------------------------------------------
(* Claims on the producer's cycle *)

\* C23: a cycle whose snapshot is the one the cycle before it recorded detects
\* nothing: added, modified and removed are empty, in every client variant.
C23_DetectorIdempotent ==
    [][(Detected /\ current = observed) => changes' = NoChanges]_vars

\* C23 witness: a cycle after the first sync has collected the three nodes the
\* cycle before it recorded and detected nothing
C23_Witness ==
    /\ pc = "remember"
    /\ ~isFirstSync
    /\ Len(current) = 3
    /\ current = observed
    /\ changes = NoChanges

\* C24: between cycles the previous table holds exactly the paths of the
\* snapshot the last cycle collected, each with the node (or its hash) the
\* snapshot has at that path, whether that cycle had a delta or not.
C24_PreviousReplaced ==
    pc = "idle" =>
        previousInstances =
            [p \in Paths(observed) |->
                Remembered(variant, LastAtPath(observed, p))]

\* C24 witness: a cycle after the first sync had nothing to send and ended,
\* its snapshot of three nodes remembered
C24_Witness ==
    /\ pc = "idle"
    /\ ~isFirstSync
    /\ quiet = 2
    /\ Len(observed) = 3
    /\ DOMAIN previousInstances = Paths(observed)

\* a step that begins a cycle
CycleBegins == pc' \in {"ping", "detect"} /\ pc' # pc

\* C25: a cycle begins only when none is in progress and the busy flag is
\* down; the flag is up exactly while a cycle is in progress, and during a
\* cycle the snapshot being sent is never replaced by another collection.
C25_NoOverlap ==
    [][/\ CycleBegins => (pc = "idle" /\ ~isSending)
       /\ isSending' <=> pc' \in {"ping", "batch", "detect", "delta", "remember"}
       /\ (isSending /\ isSending') => current' = current]_vars

\* C25 witness: a cycle is between its two batches while the Workspace has
\* lost the child the snapshot holds, so that a cycle begun now would send
\* another snapshot
C25_Witness ==
    /\ isSending
    /\ pc = "batch"
    /\ batchCursor = 1
    /\ Len(current) = 3
    /\ workspaceChildren = <<>>

\* the snapshot of an initial sync is being sent, or has just been sent
InitialSync ==
    \/ pc = "batch"
    \/ pc = "remember" /\ observed = <<>>
    \/ pc = "done"
InitialSyncSent == InitialSync /\ pc # "batch"

\* ceil(n / B) for n nodes in batches of B
Ceil(n, B) == CHOOSE t \in 0..n : (t - 1) * B < n /\ n <= t * B

\* C26: the batch requests of an initial sync of n nodes are sent with the
\* indices 0, 1, ... in that order, one after the other, each carrying
\* T = ceil(n / BATCH_SIZE) as totalBatches and isLastBatch true exactly on
\* index T - 1; when the sync is over, T requests have been sent.
C26_BatchOrder ==
    InitialSync =>
        LET T == Ceil(Len(current), BATCH_SIZE)
        IN  /\ \A k \in DOMAIN sent :
                   /\ sent[k].request.batchIndex = k - 1
                   /\ sent[k].request.totalBatches = T
                   /\ sent[k].request.isLastBatch <=> (k - 1 = T - 1)
            /\ pc = "batch" => Len(sent) = batchCursor /\ batchCursor < T
            /\ InitialSyncSent => Len(sent) = T

\* C26 witness: an initial sync of three nodes has sent its two batches, the
\* second one marked last
C26_Witness ==
    /\ pc = "remember"
    /\ observed = <<>>
    /\ Len(current) = 3
    /\ Len(sent) = 2
    /\ ~sent[1].request.isLastBatch
    /\ sent[2].request.isLastBatch

\* the node lists of the requests, one after the other
RECURSIVE Concat(_)
Concat(requests) ==
    IF requests = <<>> THEN <<>>
    ELSE Concat(SubSeq(requests, 1, Len(requests) - 1))
         \o requests[Len(requests)].request.instances

\* C27: the node lists of the batches of an initial sync, one after the
\* other in index order, are the snapshot list so far and, when the sync is
\* over, the whole of it, so that every node of the list is in one batch
\* only; every batch holds at least one and at most BATCH_SIZE nodes.
C27_Partition ==
    InitialSync =>
        /\ Len(Concat(sent)) <= Len(current)
        /\ Concat(sent) = SubSeq(current, 1, Len(Concat(sent)))
        /\ InitialSyncSent => Concat(sent) = current
        /\ \A k \in DOMAIN sent :
               /\ Len(sent[k].request.instances) >= 1
               /\ Len(sent[k].request.instances) <= BATCH_SIZE

\* C27 witness: the three nodes of an initial sync went out as a batch of two
\* and a batch of one
C27_Witness ==
    /\ InitialSyncSent
    /\ Len(current) = 3
    /\ Len(sent) = 2
    /\ Len(sent[1].request.instances) = 2
    /\ Len(sent[2].request.instances) = 1

\* how many of the requests sent carry the index j
Attempts(j) == Cardinality({i \in DOMAIN sent : sent[i].request.batchIndex = j})

\* C28: after a batch request that failed the loop goes on: while it runs,
\* the requests made are the batches up to the cursor; once it is left, every
\* later batch of the sequence has been attempted exactly once, the first
\* sync is concluded and the cycle ends with the snapshot remembered.
C28_BestEffort ==
    \A k \in DOMAIN sent :
        ~sent[k].ok =>
            /\ pc \in {"batch", "remember", "idle", "done"}
            /\ pc = "batch" => (batchCursor = Len(sent) /\ batchCursor < TotalBatches)
            /\ pc # "batch" =>
                   \A j \in (k - 1)..(sent[k].request.totalBatches - 1) :
                       Attempts(j) = 1
            /\ pc = "remember" => ~isFirstSync
            /\ pc = "idle" => (~isSending /\ ~isFirstSync /\ observed = Concat(sent))

\* C28 witness: the first of two batches failed, the second was attempted
\* and the cycle has ended
C28_Witness ==
    /\ pc = "idle"
    /\ Len(sent) = 2
    /\ ~sent[1].ok
    /\ sent[2].request.batchIndex = 1
    /\ observed # <<>>

----------------------------------------------------------------------------
(* Claims on the batch handler and the reads *)

\* C29: a batch request, whatever its index, total and last flag, leaves
\* every node the list and the map hold in place and unchanged; when none of
\* its paths is in the list yet, the list and the body read afterwards are
\* what they were with the batch's nodes added.
C29_BatchesAccumulate ==
    [][\A instances \in SeqsUpTo(StoreNodes, MaxBatchLen) :
          \A e \in BatchEnvelopes :
              PostGameTreeBatch(instances, e[1], e[2], e[3]) =>
                  /\ Len(fastInstances') >= Len(fastInstances)
                  /\ SubSeq(fastInstances', 1, Len(fastInstances)) = fastInstances
                  /\ \A p \in DOMAIN instancesMap :
                         /\ p \in DOMAIN instancesMap'
                         /\ instancesMap'[p] = instancesMap[p]
                  /\ (Paths(instances) \cap Paths(fastInstances) = {}) =>
                         /\ fastInstances' = fastInstances \o instances
                         /\ Range(listNodes') =
                                Range(listNodes) \cup Range(instances)]_vars

\* C29 witness: three nodes are in the list, put there by two batches or more
C29_Witness ==
    /\ lastOp.op = "batch"
    /\ Len(fastInstances) = 3
    /\ listNodes = fastInstances

\* C30: the body GET /api/instances answers with changes only by a delta that
\* was accepted, and is then what the whole delta makes of the body answered
\* before it: no read shows a part of a message.
C30_ReadsWholeVersions ==
    [][/\ \A added \in SeqsUpTo(PingNodes, MaxDeltaLen) :
          \A modified \in SeqsUpTo(PingNodes, MaxDeltaLen) :
          \A removed \in SeqsUpTo({n.path : n \in PingNodes}, MaxDeltaLen) :
              PostIncrementalUpdate(added, modified, removed) =>
                  listNodes' = ApplyDelta(listNodes, MapSetAll(EmptyMap, listNodes),
                                          added, modified, removed).list
       /\ lastOp'.op = "incomplete" => listNodes' = listNodes]_vars

----------------------------------------------------------------------------
(* Claims on the collector and the later cycles *)

\* C31: the paths of the node records of a snapshot are pairwise distinct,
\* also when two children of one parent carry the same name.
C31_UniquePaths ==
    \A i \in DOMAIN current : \A j \in DOMAIN current :
        i # j => current[i].path # current[j].path

\* C32: once a cycle has completed the initial sync, no cycle is at the ping
\* or in the batch loop of a first sync again and no batch request is sent:
\* the log holds nothing during a later cycle and, between cycles, nothing
\* but the batches of the initial sync.
C32_OnlyDeltasLater ==
    (variant \in Variants /\ observed # <<>>) =>
        /\ ~isFirstSync
        /\ pc \notin {"ping", "batch"}
        /\ pc # "idle" => sent = <<>>
        /\ pc = "idle" => (sent = <<>> \/ Concat(sent) = observed)

\* C32 witness: a cycle after the initial sync is about to send a delta with
\* an added node, no batch sent in it
C32_Witness ==
    /\ observed # <<>>
    /\ pc = "delta"
    /\ Len(changes.added) = 1
    /\ sent = <<>>

----------------------------------------------------------------------------
(* Claims on the persistent store and the connection *)

\* C33: after a batch has been stored, the table holds at each path of the
\* batch the node the batch has there (the last one), whatever id was stored
\* at that path before, and every row at another path is still there
\* unchanged, also when it shares its id with a node of the batch.
C33_UpsertByPath ==
    [][\A instances \in SeqsUpTo(StoreNodes, MaxBatchLen) :
          \A e \in BatchEnvelopes :
              PostGameTreeBatch(instances, e[1], e[2], e[3]) =>
                  /\ \A p \in Paths(instances) :
                         {r \in gameInstances' : r.path = p}
                             = {LastAtPath(instances, p)}
                  /\ \A r \in gameInstances :
                         r.path \notin Paths(instances) => r \in gameInstances']_vars

\* socket s is the only producer socket left open, a socket before it is
\* closed and every handler has returned
HandedOver(s) ==
    /\ readyState[s] = "open"
    /\ s \in listening
    /\ tasks = <<>>
    /\ \E t \in Sockets \ {s} : readyState[t] = "closed"
    /\ \A t \in Sockets \ {s} : readyState[t] \in {"idle", "closed"}

\* C34: the close event of a connection that was replaced leaves the new
\* connection the current one; once it has been handled, the status is
\* connected and the nodes ingested from the new producer are in the table.
C34_HandoverKeepsNew ==
    [][/\ \A t \in Sockets :
              (readyState[t] = "closing" /\ readyState'[t] = "closed") =>
                  currentConnection' = currentConnection
       /\ \A s \in Sockets :
              HandedOver(s)' =>
                  /\ currentConnection' = s
                  /\ connectionStatus' = setConnectionStatus(Connected(now))
                  /\ s \in applied' =>
                         \E row \in gameInstances' : Origin(row) = s]_vars

\* C35: after the server has emptied its collection, once the tree has
\* stopped changing and a whole later cycle has run with its sends
\* delivered, the server's collection equals the producer's snapshot again.
C35_ConvergesAfterClear ==
    (quiet = 2 /\ pc = "idle") =>
        \A ids \in DrawnIds :
            SameCollection(fastInstances,
                collectCurrentGameData(variant, workspaceChildren, ids))

----------------------------------------------------------------------------
(* Claims on the reads and the liveness of the producer *)

\* C36: when an operation has run at a time later than the last stamp, a GET
\* /api/instances carrying the ETag answered before the operation gets 304
\* only if the list served now is the body answered then: an operation that
\* changes the served list changes the ETag.
C36_ETagFresh ==
    [][now > lastDataUpdate =>
          LET earlier == getInstances(<<>>, lastDataUpdate, cachedResponse)
          IN  /\ getInstances(ETag(lastDataUpdate), lastDataUpdate',
                              cachedResponse').status = 304
                      => cachedResponse' = earlier.body
              /\ cachedResponse' # cachedResponse
                      => ETag(lastDataUpdate') # earlier.etag]_vars

\* C37: a producer that has synced, whose tree does not change and whose
\* heartbeats arrive, is connected for the server at every time, and its
\* collection is held.
C37_IdleNeverTimedOut ==
    (~isFirstSync /\ pc = "idle") =>
        /\ fastConnection.isConnected
        /\ fastInstances # <<>>

\* C38: when POST /api/disconnect has answered success, GET /api/instances
\* answers the empty list and GET /api/connection answers disconnected, until
\* the next request is handled.
C38_DisconnectShown ==
    lastOp.op = "disconnect" =>
        /\ listNodes = <<>>
        /\ ~getConnectionState.isConnected

----------------------------------------------------------------------------
(* Claims on the busy flag *)

\* C40: every cycle that begins lowers isSending again, also when a step of
\* it raises an error, and no cycle is then in progress: the next tick can
\* begin one.
C40_FlagReleased == isSending ~> (~isSending /\ pc = "idle")

\* C40 witness: an error was raised in the first sync after a batch had been
\* sent: the sync is not completed and the flag is down
C40_Witness ==
    /\ ~isSending
    /\ pc = "idle"
    /\ isFirstSync
    /\ sent # <<>>

====
